---- MODULE Spec2Model ----
(***************************************************************************)
(* A model of the infinity-core / infinity-api client library: the         *)
(* one-job-at-a-time batch submission protocol with its resumption         *)
(* checkpoint (infinity_api/batch.py), the session-level parameter         *)
(* validation and completion (infinity_core/session.py), and the polling   *)
(* and concurrent download of a batch (infinity_core/batch.py).            *)
(*                                                                         *)
(* Python's Optional values are modelled as sequences of length at most    *)
(* one: None is <<>> and a present value x is <<x>>.  A file of the disk   *)
(* is modelled the same way: <<>> when absent, <<content>> when present.   *)
(***************************************************************************)
EXTENDS Integers, Sequences, FiniteSets, TLC

None == <<>>

Some(x) == <<x>>

(***************************************************************************)
(* Bounds of the model.                                                    *)
(***************************************************************************)
\* Longest list of job-parameter sets handed to submit_batch_to_api.
MaxJobs == 3

\* How many times a submission may be interrupted and resumed.
MaxResumes == 1

\* Longest list of parameter sets handed to Session.submit.
MaxEntries == 2

\* How many times Session.submit is called on one session.
MaxCalls == 2

\* Number of jobs of the Batch that is downloaded.
MaxDownloadJobs == 2

\* How many times Batch.download is called on one target folder.
MaxDownloads == 2

\* Largest number of jobs of the Batch that is awaited.
MaxAwaitJobs == 2

\* How many polls one await_completion call is followed for.
MaxPolls == 3

\* Largest number of jobs of the Batch that is queried.
MaxQueryJobs == 2

\* How many query methods are called on that Batch, one after the other.
MaxQueries == 2

\* Largest number of keys of a parameter set that is validated.
MaxKeys == 2

\* Largest number of parameters of a schema a job is drawn for.
MaxSchemaParams == 2

\* Largest number of jobs of a batch submitted from a configuration.
MaxConfigJobs == 2

\* Most jobs the remote lists for the batch id beyond those the awaited
\* Batch holds.
MaxExtraJobs == 1

\* Longest endpoint given to build_request, counted in path pieces (a name
\* or a slash).
MaxEndpointLen == 5

(***************************************************************************)
(*                 PART 1: infinity_api/batch.py submission                *)
(***************************************************************************)
VARIABLES
    input,                \* the job_params list given to submit_batch_to_api
    resp,                 \* remote's answer to the POST of each input entry
    job_params,           \* _submit_jobs: the job_params argument of this call
    call_uid,             \* _submit_jobs: the batch_uid argument of this call
    offset,               \* entries of input consumed before this call began
    jidx,                 \* _submit_jobs: jidx
    batch_uid,            \* _submit_jobs: batch_uid
    successful_requests,  \* _submit_jobs: successful_requests
    failed_requests,      \* _submit_jobs: failed_requests
    temp_file_path,       \* _submit_jobs: temp_file_path (None while unbound)
    temp_file,            \* disk: <output_dir>/_partial_.../_partial_batch.json
    batch_file,           \* disk: <output_dir>/<batch_dir>/batch.json
    batch,                \* the Batch returned to the caller
    posted,               \* every POST the remote received, in order
    checkpoints,          \* how many times the checkpoint file was written
    resumes,              \* how many times the submission was resumed
    request_delay,        \* _submit_jobs: request_delay, in milliseconds
    slept,                \* milliseconds slept since this call's last POST
    err,                  \* the exception the call raised, "" when none
    pc                    \* position of the submitting process

submitVars == <<input, resp, job_params, call_uid, offset, jidx, batch_uid,
                successful_requests, failed_requests, temp_file_path,
                temp_file, batch_file, batch, posted, checkpoints, resumes,
                request_delay, slept, err, pc>>

\* infinity_core/session.py: one Session and the calls of its submit method.
VARIABLES
    generator_info,       \* Session._generator_info, fetched at construction
    batches,              \* Session.batches, each Batch named by its batch id
    s_args,               \* the arguments of the submit call in progress
    s_out,                \* how that call ended
    s_posts,              \* number of batch POSTs the session has issued
    s_calls,              \* number of submit calls made so far
    remote_batches,       \* number of batches the remote has created
    list_of,              \* the list object each Session's batches field is
    other_batches,        \* the batches of a second Session, never called
    s_pc                  \* "idle", "called" (submit entered) or "done"

sessionVars == <<generator_info, batches, s_args, s_out, s_posts, s_calls,
                 remote_batches, list_of, other_batches, s_pc>>

\* infinity_core/batch.py: one Batch, its remote jobs and the calls of its
\* download method on one target folder.
VARIABLES
    d_remote,             \* remote: each job in progress, invalid or valid
    d_layout,             \* what the result archives hold at their top level
    d_overwrite,          \* download: the overwrite argument
    d_exists,             \* disk: whether the target folder exists
    d_marker,             \* disk: content of <path>/batch_id.txt
    d_dirs,               \* disk: names of the subdirectories of the folder
    d_loose,              \* disk: jobs whose files lie directly in the folder
    d_before,             \* the folder as it was when the call began
    d_tasks,              \* pool: state of each job's download task
    d_submitted,          \* download: the jobs of downloadable_jobs
    d_handled,            \* download: futures as_completed has yielded
    d_fetched,            \* jobs whose result url was requested
    d_failed_jobs,        \* download: failed_jobs
    d_num_completed,      \* download: num_jobs_completed
    d_requests,           \* summary requests issued by the call
    d_calls,              \* number of download calls so far
    d_err,                \* the exception the call raised, "" when none
    d_pc                  \* "start", "pool", "returned" or "raised"

downloadVars == <<d_remote, d_layout, d_overwrite, d_exists, d_marker, d_dirs,
                  d_loose, d_before, d_tasks, d_submitted, d_handled,
                  d_fetched, d_failed_jobs, d_num_completed, d_requests,
                  d_calls, d_err, d_pc>>

\* infinity_core/batch.py: one call of await_completion on a Batch.
VARIABLES
    a_num_jobs,           \* len(self.jobs)
    a_remote,             \* remote: each job in progress, invalid or valid
    a_polling_interval,   \* await_completion: the polling_interval argument
    a_timeout,            \* await_completion: the timeout argument
    a_now,                \* the clock, in seconds since start_time
    a_num_jobs_remaining, \* await_completion: num_jobs_remaining
    a_observed,           \* what the last answered poll reported, if any
    a_polls,              \* number of polls issued
    a_requests,           \* number of summary requests issued
    a_refused,            \* number of them answered with a non-2xx status
    a_result,             \* the jobs returned, None before the return
    a_err,                \* the exception the call raised, "" when none
    a_pc                  \* "start", "loop", "returned" or "raised"

awaitVars == <<a_num_jobs, a_remote, a_polling_interval, a_timeout, a_now,
               a_num_jobs_remaining, a_observed, a_polls, a_requests,
               a_refused, a_result, a_err, a_pc>>

\* infinity_core/batch.py: one Batch and the calls of its query methods.
VARIABLES
    q_jobs,               \* keys of self.jobs, in insertion order
    q_job_runs,           \* remote: the summary's job_runs, in its order
    q_method,             \* the method called, "" between calls
    q_out,                \* how the call ended
    q_calls               \* number of calls so far

queryVars == <<q_jobs, q_job_runs, q_method, q_out, q_calls>>

\* infinity_core/session.py: one call of Session.validate_job_params.
VARIABLES
    v_pinfo,              \* Session.parameter_info
    v_job_params,         \* validate_job_params: the job_params argument
    v_out,                \* what the call returned or raised
    v_pc                  \* "start" or "done"

validateVars == <<v_pinfo, v_job_params, v_out, v_pc>>

\* infinity_core/session.py: one call of Session.random_job.
VARIABLES
    r_pinfo,              \* Session.parameter_info
    r_out,                \* what the call returned or raised
    r_pc                  \* "start" or "done"

randomVars == <<r_pinfo, r_out, r_pc>>

\* infinity_core/api.py, infinity_core/session.py, infinity_core/batch.py and
\* infinity_api/batch.py: one operation that starts from the caller's
\* configuration, the construction of a Session or a batch submission.
VARIABLES
    k_token,              \* token
    k_server,             \* server
    k_generator,          \* generator
    k_job_type,           \* job_type
    k_num_jobs,           \* len(job_params)
    k_op,                 \* the operation called, "" before the call
    k_requests,           \* number of HTTP requests the operation issued
    k_response,           \* Session: the answer to the generator-info GET
    k_session,            \* Session: the _generator_info of the new Session
    k_out,                \* "returned" or the name of the exception
    k_pc                  \* "start" or "done"

configVars == <<k_token, k_server, k_generator, k_job_type, k_num_jobs, k_op,
                k_requests, k_response, k_session, k_out, k_pc>>

\* infinity_core/api.py: one call of build_request.
VARIABLES
    u_token,              \* token
    u_server,             \* server
    u_endpoint,           \* endpoint
    u_query,              \* query_parameters, None when not given
    u_out,                \* the URL returned or the exception raised
    u_pc                  \* "start" or "done"

urlVars == <<u_token, u_server, u_endpoint, u_query, u_out, u_pc>>

\* infinity_api/batch.py: one call of await_jobs on a Batch.
VARIABLES
    w_num_jobs,           \* len(self.jobs)
    w_extra,              \* jobs the remote lists that self.jobs lacks
    w_remote,             \* remote: each listed job's state
    w_timeout,            \* await_jobs: the timeout argument
    w_polling_interval,   \* await_jobs: the polling_interval argument
    w_now,                \* the clock, in seconds since start_time
    w_num_completed_jobs, \* await_jobs: num_completed_jobs
    w_observed,           \* jobs the last answered poll saw completed
    w_polls,              \* number of polls issued
    w_result,             \* the list returned, None before the return
    w_err,                \* the exception the call raised, "" when none
    w_pc                  \* "start", "loop", "returned" or "raised"

awaitJobsVars == <<w_num_jobs, w_extra, w_remote, w_timeout,
                   w_polling_interval, w_now, w_num_completed_jobs,
                   w_observed, w_polls, w_result, w_err, w_pc>>

vars == <<submitVars, sessionVars, downloadVars, awaitVars, queryVars,
          validateVars, randomVars, configVars, urlVars, awaitJobsVars>>

\* What an action of one part leaves alone: the other parts.
SubmitFrame ==
    UNCHANGED <<sessionVars, downloadVars, awaitVars, queryVars, validateVars,
                randomVars, configVars, urlVars, awaitJobsVars>>

SessionFrame ==
    UNCHANGED <<submitVars, downloadVars, awaitVars, queryVars, validateVars,
                randomVars, configVars, urlVars, awaitJobsVars>>

DownloadFrame ==
    UNCHANGED <<submitVars, sessionVars, awaitVars, queryVars, validateVars,
                randomVars, configVars, urlVars, awaitJobsVars>>

AwaitFrame ==
    UNCHANGED <<submitVars, sessionVars, downloadVars, queryVars,
                validateVars, randomVars, configVars, urlVars, awaitJobsVars>>

QueryFrame ==
    UNCHANGED <<submitVars, sessionVars, downloadVars, awaitVars,
                validateVars, randomVars, configVars, urlVars, awaitJobsVars>>

ValidateFrame ==
    UNCHANGED <<submitVars, sessionVars, downloadVars, awaitVars, queryVars,
                randomVars, configVars, urlVars, awaitJobsVars>>

RandomFrame ==
    UNCHANGED <<submitVars, sessionVars, downloadVars, awaitVars, queryVars,
                validateVars, configVars, urlVars, awaitJobsVars>>

ConfigFrame ==
    UNCHANGED <<submitVars, sessionVars, downloadVars, awaitVars, queryVars,
                validateVars, randomVars, urlVars, awaitJobsVars>>

UrlFrame ==
    UNCHANGED <<submitVars, sessionVars, downloadVars, awaitVars, queryVars,
                validateVars, randomVars, configVars, awaitJobsVars>>

AwaitJobsFrame ==
    UNCHANGED <<submitVars, sessionVars, downloadVars, awaitVars, queryVars,
                validateVars, randomVars, configVars, urlVars>>

\* The parameter sets a caller may submit (opaque to the submission loop).
ParamValues == {"pa", "pb"}

\* What the remote may answer to one create-job POST.
Responses ==
    {[ok |-> TRUE, status_code |-> 201]}
        \cup {[ok |-> FALSE, status_code |-> s] : s \in {400, 500}}

\* The job id the remote assigns to the accepted request for input entry i.
JobIdOf(i) == <<"job", i>>

\* The batch id the remote creates when it accepts, without a batch id in the
\* request, the request for input entry i: a new batch per such request.
BatchIdOf(i) == <<"batch", i>>

\* The JSON payload of the response to the POST of input entry i carrying
\* batch id b (None when the request carries none).
JsonPayload(i, b) ==
    [id |-> JobIdOf(i), batch_id |-> IF b = None THEN BatchIdOf(i) ELSE b[1]]

SuccessfulJobRequest(job_id, params) == [job_id |-> job_id, params |-> params]

FailedJobRequest(status_code, params) ==
    [status_code |-> status_code, params |-> params]

\* A plausible slip: the slice starts one entry early and keeps the entry
\* just submitted.
SliceInclusive(s, n) == SubSeq(s, n, Len(s))

\* job_params[jidx:] of Python, for a TLA+ sequence indexed from 1.
Slice(s, n) == SubSeq(s, n + 1, Len(s))

\* PartialBatch(...) as serialised by write_temp_file.
PartialBatch(uid, submitted, unsubmitted, failed) ==
    [uid |-> uid, submitted_jobs |-> submitted,
     unsubmitted_jobs |-> unsubmitted, failed_requests |-> failed]

\* Batch(...) as built by submit_batch_to_api and resume_submission.
Batch(uid, jobs, failed) ==
    [uid |-> uid, jobs |-> jobs, failed_requests |-> failed]

\* The request_delay of _submit_jobs when its caller gives none (line 32),
\* in milliseconds.
DefaultRequestDelay == 50

\* The delays a caller of submit_batch_to_api may ask for, in milliseconds.
RequestDelays == {DefaultRequestDelay, 200}

\* The ValueError of lines 91 and 93.
AllFailedError == "ValueError: All batch jobs failed in submission"

SubmitInit ==
    /\ input \in UNION {[1..n -> ParamValues] : n \in 0..MaxJobs}
    /\ resp \in [1..Len(input) -> Responses]
    /\ job_params = input
    /\ call_uid = None
    /\ offset = 0
    /\ jidx = 0
    /\ batch_uid = None
    /\ successful_requests = <<>>
    /\ failed_requests = <<>>
    /\ temp_file_path = None
    /\ temp_file = None
    /\ batch_file = None
    /\ batch = None
    /\ posted = <<>>
    /\ checkpoints = 0
    /\ resumes = 0
    /\ request_delay \in RequestDelays
    /\ slept = 0
    /\ err = ""
    /\ pc = "seek"

\* One POST as the remote receives it: the parameter set (entry index of
\* input), the batch id the request carries (None when it carries none),
\* the call that issued it and what that call had slept since its last
\* request.
Request(params, uid, index) ==
    [params |-> params, batch_id |-> uid, index |-> index, run |-> resumes,
     waited |-> slept]

\* time.sleep(request_delay), lines 86 and 118: the time slept since the
\* last request is then the delay.
Sleep(delay) == delay

\* A plausible slip: the batch id is left out of the later requests.
RequestBatchIdOmitted(uid) == None

\* "batch_id": batch_uid of the json_data of line 97.
RequestBatchId(uid) == uid

\* A plausible slip: a rejected request ends the submission.
AfterRejectAborts == "raised"

\* Where the first loop goes once a request was rejected: on to the next
\* entry (lines 71-86).
AfterReject == "seek"

\* Where the first loop goes once a request was accepted: `break`.
AfterAccept == "rest"

\* A plausible slip: the batch id read under the job id's key.
ExtractBatchUidWrongKey(json_payload) == json_payload.id

\* batch_uid = json_payload["batch_id"] (line 54).
ExtractBatchUid(json_payload) == json_payload.batch_id

\* One iteration of the loop seeking the first success (lines 48-86): POST
\* without a batch id, record the outcome, write the checkpoint.
SeekPost ==
    /\ pc = "seek"
    /\ jidx < Len(job_params)
    /\ LET params == job_params[jidx + 1]
           i == offset + jidx + 1
           r == resp[i]
           payload == JsonPayload(i, None)
           succ == IF r.ok
                   THEN Append(successful_requests,
                               SuccessfulJobRequest(payload.id, params))
                   ELSE successful_requests
           fail == IF r.ok
                   THEN failed_requests
                   ELSE Append(failed_requests,
                               FailedJobRequest(r.status_code, params))
           uid == IF r.ok THEN Some(ExtractBatchUid(payload)) ELSE batch_uid
       IN /\ posted' = Append(posted, Request(params, None, i))
          /\ jidx' = jidx + 1
          /\ batch_uid' = uid
          /\ successful_requests' = succ
          /\ failed_requests' = fail
          /\ temp_file' = Some(PartialBatch(uid, succ,
                                            Slice(job_params, jidx + 1), fail))
          /\ temp_file_path' = Some("_partial_batch.json")
          /\ checkpoints' = checkpoints + 1
          /\ slept' = IF r.ok THEN 0 ELSE Sleep(request_delay)
          /\ pc' = IF r.ok THEN AfterAccept ELSE AfterReject
    /\ UNCHANGED <<input, resp, job_params, call_uid, offset, batch_file,
                   batch, resumes, err>>
    /\ UNCHANGED request_delay
    /\ SubmitFrame

\* A plausible slip: the for-else is forgotten and the second loop is entered.
SeekExhaustedFallsThrough ==
    /\ pc = "seek"
    /\ jidx = Len(job_params)
    /\ pc' = "rest"
    /\ UNCHANGED <<input, resp, job_params, call_uid, offset, jidx, batch_uid,
                   successful_requests, failed_requests, temp_file_path,
                   temp_file, batch_file, batch, posted, checkpoints, resumes,
                   err>>
    /\ UNCHANGED <<request_delay, slept>>
    /\ SubmitFrame

\* The else-branch of the first loop (lines 87-93): every request failed, or
\* there was none; `r` is then unbound and the NameError is caught alike.
SeekExhausted ==
    /\ pc = "seek"
    /\ jidx = Len(job_params)
    /\ pc' = "raised"
    /\ err' = AllFailedError
    /\ UNCHANGED <<input, resp, job_params, call_uid, offset, jidx, batch_uid,
                   successful_requests, failed_requests, temp_file_path,
                   temp_file, batch_file, batch, posted, checkpoints, resumes>>
    /\ UNCHANGED <<request_delay, slept>>
    /\ SubmitFrame

\* A plausible slip: the second loop has no else-branch, a rejected request
\* is recorded nowhere.
RestPostDropsFailed ==
    /\ pc = "rest"
    /\ jidx < Len(job_params)
    /\ LET params == job_params[jidx + 1]
           i == offset + jidx + 1
           r == resp[i]
           payload == JsonPayload(i, RequestBatchId(batch_uid))
           succ == IF r.ok
                   THEN Append(successful_requests,
                               SuccessfulJobRequest(payload.id, params))
                   ELSE successful_requests
       IN /\ posted' = Append(posted,
                               Request(params, RequestBatchId(batch_uid), i))
          /\ slept' = Sleep(request_delay)
          /\ jidx' = jidx + 1
          /\ successful_requests' = succ
          /\ temp_file' = Some(PartialBatch(batch_uid, succ,
                                            Slice(job_params, jidx + 1),
                                            failed_requests))
          /\ temp_file_path' = Some("_partial_batch.json")
          /\ checkpoints' = checkpoints + 1
    /\ UNCHANGED <<input, resp, job_params, call_uid, offset, batch_uid,
                   failed_requests, batch_file, batch, resumes, err, pc>>
    /\ UNCHANGED request_delay
    /\ SubmitFrame

\* One iteration of the second loop (lines 96-118): POST with the batch id.
RestPost ==
    /\ pc = "rest"
    /\ jidx < Len(job_params)
    /\ LET params == job_params[jidx + 1]
           i == offset + jidx + 1
           r == resp[i]
           payload == JsonPayload(i, RequestBatchId(batch_uid))
           succ == IF r.ok
                   THEN Append(successful_requests,
                               SuccessfulJobRequest(payload.id, params))
                   ELSE successful_requests
           fail == IF r.ok
                   THEN failed_requests
                   ELSE Append(failed_requests,
                               FailedJobRequest(r.status_code, params))
       IN /\ posted' = Append(posted,
                               Request(params, RequestBatchId(batch_uid), i))
          /\ slept' = Sleep(request_delay)
          /\ jidx' = jidx + 1
          /\ successful_requests' = succ
          /\ failed_requests' = fail
          /\ temp_file' = Some(PartialBatch(batch_uid, succ,
                                            Slice(job_params, jidx + 1), fail))
          /\ temp_file_path' = Some("_partial_batch.json")
          /\ checkpoints' = checkpoints + 1
    /\ UNCHANGED <<input, resp, job_params, call_uid, offset, batch_uid,
                   batch_file, batch, resumes, err, pc>>
    /\ UNCHANGED request_delay
    /\ SubmitFrame

\* The jobs the returned Batch holds (lines 251-262 and 587-598).
BatchJobs == successful_requests

\* The failed requests the returned Batch holds.
BatchFailedRequests == failed_requests

\* A plausible slip: the caller forgets to unlink the checkpoint.
FinishKeepsCheckpoint ==
    /\ pc = "rest"
    /\ jidx = Len(job_params)
    /\ IF temp_file_path = None
       THEN /\ pc' = "raised"
            /\ err' = "UnboundLocalError"
            /\ UNCHANGED <<batch, batch_file>>
       ELSE /\ pc' = "returned"
            /\ batch' = Some(Batch(batch_uid, BatchJobs, BatchFailedRequests))
            /\ batch_file' = Some(Batch(batch_uid, BatchJobs,
                                        BatchFailedRequests))
            /\ err' = err
    /\ UNCHANGED <<input, resp, job_params, call_uid, offset, jidx, batch_uid,
                   successful_requests, failed_requests, temp_file_path,
                   temp_file, posted, checkpoints, resumes>>
    /\ UNCHANGED <<request_delay, slept>>
    /\ SubmitFrame

\* _submit_jobs returns (line 120) and its caller builds the Batch, deletes
\* the checkpoint and writes batch.json (lines 251-269, 587-605).  Reading
\* temp_file_path while it is unbound raises UnboundLocalError.
Finish ==
    /\ pc = "rest"
    /\ jidx = Len(job_params)
    /\ IF temp_file_path = None
       THEN /\ pc' = "raised"
            /\ err' = "UnboundLocalError"
            /\ UNCHANGED <<batch, temp_file, batch_file>>
       ELSE /\ pc' = "returned"
            /\ batch' = Some(Batch(batch_uid, BatchJobs, BatchFailedRequests))
            /\ temp_file' = None
            /\ batch_file' = Some(Batch(batch_uid, BatchJobs,
                                        BatchFailedRequests))
            /\ err' = err
    /\ UNCHANGED <<input, resp, job_params, call_uid, offset, jidx, batch_uid,
                   successful_requests, failed_requests, temp_file_path,
                   posted, checkpoints, resumes>>
    /\ UNCHANGED <<request_delay, slept>>
    /\ SubmitFrame

\* The submitting process dies (crash, kill) between two requests, after at
\* least one checkpoint was written: the disk is all that is left.
Interrupt ==
    /\ pc \in {"seek", "rest"}
    /\ temp_file # None
    /\ resumes < MaxResumes
    /\ pc' = "interrupted"
    /\ UNCHANGED <<input, resp, job_params, call_uid, offset, jidx, batch_uid,
                   successful_requests, failed_requests, temp_file_path,
                   temp_file, batch_file, batch, posted, checkpoints, resumes,
                   err>>
    /\ UNCHANGED <<request_delay, slept>>
    /\ SubmitFrame

\* The submitting process dies between the answer to a request and the
\* write of that request's checkpoint (lines 50 to 58, 74 or 106), with the
\* checkpoint of an earlier request on disk: the remote has the request,
\* the disk does not.
InterruptBeforeCheckpoint ==
    /\ pc \in {"seek", "rest"}
    /\ jidx < Len(job_params)
    /\ temp_file # None
    /\ resumes < MaxResumes
    /\ posted' = Append(posted,
                        Request(job_params[jidx + 1],
                                IF pc = "seek" THEN None
                                ELSE RequestBatchId(batch_uid),
                                offset + jidx + 1))
    /\ pc' = "interrupted"
    /\ UNCHANGED <<input, resp, job_params, call_uid, offset, jidx, batch_uid,
                   successful_requests, failed_requests, temp_file_path,
                   temp_file, batch_file, batch, checkpoints, resumes, err>>
    /\ UNCHANGED <<request_delay, slept>>
    /\ SubmitFrame

\* PartialBatch.from_batch_file(...).resume_submission(token) (lines 229-249):
\* _submit_jobs starts anew on the checkpoint's unsubmitted jobs and batch id.
ResumeSubmission ==
    /\ pc = "interrupted"
    /\ LET pb == temp_file[1]
       IN /\ job_params' = pb.unsubmitted_jobs
          /\ call_uid' = pb.uid
          /\ batch_uid' = pb.uid
          /\ offset' = Len(input) - Len(pb.unsubmitted_jobs)
          /\ pc' = IF pb.uid = None THEN "seek" ELSE "rest"
    /\ jidx' = 0
    /\ successful_requests' = <<>>
    /\ failed_requests' = <<>>
    /\ temp_file_path' = None
    /\ resumes' = resumes + 1
    /\ UNCHANGED <<input, resp, temp_file, batch_file, batch, posted,
                   checkpoints, err>>
    /\ request_delay' = DefaultRequestDelay
    /\ slept' = 0
    /\ SubmitFrame

SubmitNext ==
    \/ SeekPost
    \/ SeekExhausted
    \/ RestPost
    \/ Finish
    \/ Interrupt
    \/ InterruptBeforeCheckpoint
    \/ ResumeSubmission

\* The submission part at rest, for the specifications of the other parts.
SubmitIdle ==
    /\ input = <<>>
    /\ resp = <<>>
    /\ job_params = <<>>
    /\ call_uid = None
    /\ offset = 0
    /\ jidx = 0
    /\ batch_uid = None
    /\ successful_requests = <<>>
    /\ failed_requests = <<>>
    /\ temp_file_path = None
    /\ temp_file = None
    /\ batch_file = None
    /\ batch = None
    /\ posted = <<>>
    /\ checkpoints = 0
    /\ resumes = 0
    /\ request_delay = 0
    /\ slept = 0
    /\ err = ""
    /\ pc = "idle"

(***************************************************************************)
(* Claims about the submission protocol.                                   *)
(***************************************************************************)
\* Whether the remote accepts the k-th entry of this call's job_params.
AcceptedHere(k) == resp[offset + k].ok

\* The failed-request records of the entries 1..n of this call's job_params
\* (all of them rejected), in input order.
RejectedPrefix(n) ==
    [k \in 1..n |-> [status_code |-> resp[offset + k].status_code,
                     params |-> job_params[k]]]

\* C1: in a _submit_jobs call started without a batch id that got past its
\* first loop, the batch id held (and returned) is the one of the response to
\* the first accepted entry K, and the entries before K, all rejected, are
\* the first failed requests, in input order, each with its status code and
\* its parameters; when K was just accepted they are the only ones.
C1_FirstAcceptedSetsBatchId ==
    (call_uid = None /\ pc \in {"rest", "returned"}) =>
        \E K \in 1..Len(job_params) :
            /\ AcceptedHere(K)
            /\ \A k \in 1..(K - 1) : ~AcceptedHere(k)
            /\ batch_uid = Some(JsonPayload(offset + K, None).batch_id)
            /\ jidx >= K
            /\ Len(failed_requests) >= K - 1
            /\ SubSeq(failed_requests, 1, K - 1) = RejectedPrefix(K - 1)
            /\ (jidx = K => Len(failed_requests) = K - 1)
            /\ \A n \in K..Len(failed_requests) :
                   \E k \in (K + 1)..jidx :
                       failed_requests[n].params = job_params[k]
            /\ (pc = "returned" =>
                    batch[1].uid = Some(JsonPayload(offset + K, None).batch_id))

\* C1's case: a fresh submission returned whose first entry was rejected and
\* whose batch id therefore comes from a later entry.
C1_Witness ==
    /\ pc = "returned"
    /\ resumes = 0
    /\ Len(input) >= 3
    /\ ~resp[1].ok
    /\ resp[2].ok
    /\ ~resp[3].ok
    /\ batch[1].uid = Some(BatchIdOf(2))

\* C2: a call seeking the first success raises the all-failed ValueError
\* exactly when every one of its submissions failed, and then no Batch exists
\* and no batch.json was written; when at least one submission is accepted
\* nothing is raised and the call returns with the rejected ones recorded in
\* failed_requests.
C2_AllFailedRaises ==
    /\ (err = AllFailedError) =>
           /\ pc = "raised"
           /\ call_uid = None
           /\ \A k \in 1..Len(job_params) : ~AcceptedHere(k)
           /\ batch = None
           /\ batch_file = None
    /\ (call_uid = None /\ pc \in {"returned", "raised"}
            /\ \A k \in 1..Len(job_params) : ~AcceptedHere(k)) =>
           (pc = "raised" /\ err = AllFailedError)
    /\ (call_uid = None /\ \E k \in 1..Len(job_params) : AcceptedHere(k)) =>
           /\ err = ""
           /\ pc # "raised"
           /\ (pc = "returned" =>
                   /\ batch # None
                   /\ \A k \in 1..Len(job_params) :
                          ~AcceptedHere(k) =>
                              \E n \in 1..Len(batch[1].failed_requests) :
                                  batch[1].failed_requests[n] =
                                      [status_code |->
                                           resp[offset + k].status_code,
                                       params |-> job_params[k]])

\* C2's case: two or more submissions, every one rejected, the error raised.
C2_Witness ==
    /\ pc = "raised"
    /\ err = AllFailedError
    /\ resumes = 0
    /\ Len(input) >= 2
    /\ Len(posted) = Len(input)

\* The indices 1..n of input, in order, whose answer has resp[i].ok = ok.
RECURSIVE IndicesWhere(_, _)
IndicesWhere(n, ok) ==
    IF n = 0 THEN <<>>
    ELSE IF resp[n].ok = ok
         THEN Append(IndicesWhere(n - 1, ok), n)
         ELSE IndicesWhere(n - 1, ok)

\* What the uninterrupted submission of input yields for the answers resp.
UninterruptedBatch ==
    LET acc == IndicesWhere(Len(input), TRUE)
        rej == IndicesWhere(Len(input), FALSE)
    IN [uid |-> Some(JsonPayload(acc[1], None).batch_id),
        jobs |-> [n \in 1..Len(acc) |->
                      [job_id |-> JobIdOf(acc[n]), params |-> input[acc[n]]]],
        failed_requests |->
            [n \in 1..Len(rej) |->
                 [status_code |-> resp[rej[n]].status_code,
                  params |-> input[rej[n]]]]]

\* C3: a submission interrupted after a checkpoint and resumed from it
\* returns the Batch the uninterrupted run returns for the same answers: the
\* same batch id, the same submitted jobs and the same failed requests.
C3_ResumeYieldsSameBatch ==
    (pc = "returned" /\ resumes > 0) => batch[1] = UninterruptedBatch

\* The uninterrupted run does return UninterruptedBatch.
UninterruptedRunYieldsIt ==
    (pc = "returned" /\ resumes = 0) => batch[1] = UninterruptedBatch

\* The indices 1..n of this call's job_params, in order, whose answer has
\* ok = ok.
RECURSIVE CallIndicesWhere(_, _)
CallIndicesWhere(n, ok) ==
    IF n = 0 THEN <<>>
    ELSE IF resp[offset + n].ok = ok
         THEN Append(CallIndicesWhere(n - 1, ok), n)
         ELSE CallIndicesWhere(n - 1, ok)

\* C28: when _submit_jobs has returned for the N entries of its job_params,
\* the successful records are the accepted entries, in input order, each
\* with its job id and its parameters, the failed records are the rejected
\* entries, in input order, each with its status code and its parameters,
\* and the two sizes sum to N: every entry is in exactly one of the two.
C28_RecordsPartitionInputInOrder ==
    pc = "returned" =>
        LET N == Len(job_params)
            acc == CallIndicesWhere(N, TRUE)
            rej == CallIndicesWhere(N, FALSE)
        IN /\ Len(successful_requests) + Len(failed_requests) = N
           /\ successful_requests =
                  [n \in 1..Len(acc) |->
                      [job_id |-> JobIdOf(offset + acc[n]),
                       params |-> job_params[acc[n]]]]
           /\ failed_requests =
                  [n \in 1..Len(rej) |->
                      [status_code |-> resp[offset + rej[n]].status_code,
                       params |-> job_params[rej[n]]]]

\* An uninterrupted call returned for three entries, the first rejected,
\* the second accepted, the third rejected.
C28_Witness ==
    /\ pc = "returned"
    /\ resumes = 0
    /\ Len(job_params) = 3
    /\ ~resp[1].ok /\ resp[2].ok /\ ~resp[3].ok
    /\ Len(successful_requests) = 1
    /\ Len(failed_requests) = 2

(***************************************************************************)
(*        Claims on the checkpoint, the requests and the resumption        *)
(***************************************************************************)
\* A call of _submit_jobs is at the top of a loop iteration or over.
AtRequestBoundary == pc \in {"seek", "rest", "returned", "raised"}

\* The requests the current call of _submit_jobs has issued, in order.
RunRequests == SelectSeq(posted, LAMBDA q : q.run = resumes)

\* C33: once submit_batch_to_api or resume_submission has returned its
\* Batch, the checkpoint file the submission wrote is no longer on disk;
\* before the first request of a submission there is none either.
C33_CheckpointDeletedOnReturn ==
    /\ pc = "returned" =>
           (batch # None /\ checkpoints > 0 /\ temp_file = None)
    /\ checkpoints = 0 => temp_file = None

\* resume_submission has returned a Batch after writing the checkpoint
\* for at least one request of its own.
C33_Witness ==
    /\ pc = "returned"
    /\ resumes = 1
    /\ Len(job_params) >= 1
    /\ checkpoints >= 2
    /\ temp_file = None

\* C34: the requests one call of _submit_jobs has issued are the first jidx
\* entries of its job_params, in input order and each once, and the call
\* is over only when every entry was posted, whatever was rejected.
C34_PostsAreInputInOrder ==
    AtRequestBoundary =>
        /\ Len(RunRequests) = jidx
        /\ \A k \in 1..Len(RunRequests) :
               /\ RunRequests[k].params = job_params[k]
               /\ RunRequests[k].index = offset + k
        /\ pc \in {"returned", "raised"} => jidx = Len(job_params)

\* A fresh submission of three entries returned, with a request rejected
\* before the batch id was known and one rejected after it.
C34_Witness ==
    /\ pc = "returned"
    /\ resumes = 0
    /\ Len(input) = 3
    /\ ~resp[1].ok /\ resp[2].ok /\ ~resp[3].ok
    /\ Len(posted) = 3

\* The entries of this call's job_params accepted so far.
AcceptedSoFar == {k \in 1..jidx : AcceptedHere(k)}

\* C35: in a call of _submit_jobs started without a batch id, every request
\* up to and including the first accepted one carries no batch id, every
\* later one carries the batch id of the response to the first accepted
\* one, and that batch id is the one the call holds from then on; a call
\* given a batch id sends it with every request and keeps it.
C35_BatchIdAttachment ==
    AtRequestBoundary =>
        IF call_uid # None
        THEN /\ batch_uid = call_uid
             /\ \A k \in 1..Len(RunRequests) :
                    RunRequests[k].batch_id = call_uid
        ELSE IF AcceptedSoFar = {}
        THEN /\ batch_uid = None
             /\ \A k \in 1..Len(RunRequests) : RunRequests[k].batch_id = None
        ELSE LET K == CHOOSE k \in AcceptedSoFar :
                          \A m \in AcceptedSoFar : k <= m
                 established == Some(JsonPayload(offset + K, None).batch_id)
             IN /\ batch_uid = established
                /\ \A k \in 1..Len(RunRequests) :
                       RunRequests[k].batch_id =
                           IF k <= K THEN None ELSE established

\* A fresh submission returned whose second request was the first accepted
\* one: the third request carried the batch id of the second response.
C35_Witness ==
    /\ pc = "returned"
    /\ resumes = 0
    /\ Len(input) = 3
    /\ ~resp[1].ok /\ resp[2].ok /\ resp[3].ok
    /\ posted[2].batch_id = None
    /\ posted[3].batch_id = Some(BatchIdOf(2))

\* C36: during a fresh submission, after each request one checkpoint has
\* been written, and the checkpoint on disk holds the accepted entries so
\* far as submitted jobs, the rejected ones as failed requests, both in
\* input order, and the entries not yet attempted as unsubmitted jobs, so
\* that each input entry is in exactly one of the three; its batch id is
\* unknown exactly when no request has been accepted yet.
C36_CheckpointPartitionsInput ==
    (resumes = 0 /\ pc \in {"seek", "rest"}) =>
        /\ checkpoints = jidx
        /\ Len(posted) = jidx
        /\ jidx > 0 =>
               /\ temp_file # None
               /\ LET pb == temp_file[1]
                      acc == IndicesWhere(jidx, TRUE)
                      rej == IndicesWhere(jidx, FALSE)
                  IN /\ pb.submitted_jobs =
                            [n \in 1..Len(acc) |->
                                 [job_id |-> JobIdOf(acc[n]),
                                  params |-> input[acc[n]]]]
                     /\ pb.failed_requests =
                            [n \in 1..Len(rej) |->
                                 [status_code |-> resp[rej[n]].status_code,
                                  params |-> input[rej[n]]]]
                     /\ pb.unsubmitted_jobs =
                            [n \in 1..(Len(input) - jidx) |-> input[jidx + n]]
                     /\ Len(pb.submitted_jobs) + Len(pb.failed_requests)
                            + Len(pb.unsubmitted_jobs) = Len(input)
                     /\ (pb.uid = None) <=> (acc = <<>>)

\* Two of three requests are answered, the first rejected and the second
\* accepted, and the checkpoint names the batch and one unsubmitted entry.
C36_Witness ==
    /\ resumes = 0
    /\ pc = "rest"
    /\ jidx = 2
    /\ Len(input) = 3
    /\ ~resp[1].ok /\ resp[2].ok
    /\ temp_file # None
    /\ temp_file[1].uid = Some(BatchIdOf(2))
    /\ Len(temp_file[1].unsubmitted_jobs) = 1

\* C37: over an interrupted run and the run resumed from the last written
\* checkpoint, no entry of the input is posted to the remote more than
\* once.
C37_NoParamSetPostedTwice ==
    \A a, b \in 1..Len(posted) :
        a # b => posted[a].index # posted[b].index

\* What does hold: an entry is posted twice only when its first request
\* was the last one of an interrupted call, the one whose checkpoint was
\* never written, and then once by that call and once by the resumed one.
C37_OnlyUncheckpointedRequestReposted ==
    \A a, b \in 1..Len(posted) :
        (a < b /\ posted[a].index = posted[b].index) =>
            /\ posted[a].run < posted[b].run
            /\ a < Len(posted)
            /\ posted[a + 1].run > posted[a].run
            /\ posted[a + 1].index = posted[a].index

\* C38: between any two consecutive requests of one call of _submit_jobs
\* the call has slept its request_delay.
C38_DelayBetweenConsecutiveRequests ==
    \A k \in 2..Len(posted) :
        (posted[k].run = resumes /\ posted[k - 1].run = resumes) =>
            posted[k].waited = request_delay

\* What does hold: the delay is slept before every request of a call but
\* its first and the one that follows the first accepted request of the
\* loop seeking the batch id, which is issued at once.
C38_DelayExceptAfterFirstAccepted ==
    \A k \in 2..Len(posted) :
        (posted[k].run = resumes /\ posted[k - 1].run = resumes) =>
            posted[k].waited =
                IF posted[k - 1].batch_id = None /\ resp[posted[k - 1].index].ok
                THEN 0
                ELSE request_delay

\* The resumed call was given a batch id and no unsubmitted entry, and is
\* over.
ResumedFinishedCheckpoint ==
    /\ resumes > 0
    /\ call_uid # None
    /\ job_params = <<>>
    /\ pc \in {"returned", "raised"}

\* C39: resuming a checkpoint with a known batch id and no unsubmitted
\* entry issues no request and returns a Batch with the checkpoint's batch
\* id.
C39_ResumeOfFinishedCheckpointReturns ==
    ResumedFinishedCheckpoint =>
        /\ pc = "returned"
        /\ batch # None
        /\ batch[1].uid = call_uid
        /\ RunRequests = <<>>

\* What does hold: that resumption issues no request and raises
\* UnboundLocalError, the checkpoint staying on disk.
C39_ResumeOfFinishedCheckpointRaises ==
    ResumedFinishedCheckpoint =>
        /\ pc = "raised"
        /\ err = "UnboundLocalError"
        /\ batch = None
        /\ temp_file # None
        /\ RunRequests = <<>>

(***************************************************************************)
(*          PART 2: infinity_core/session.py validation and submit         *)
(*                                                                         *)
(* A Python value is a record [ty, n, s]: ty is the name of its runtime    *)
(* type, n its number (0 or 1 for a bool) and s its text.  A float is      *)
(* modelled by the integers among its values.  A dict is a function from   *)
(* its keys.                                                               *)
(***************************************************************************)
IntV(n) == [ty |-> "int", n |-> n, s |-> ""]

FloatV(n) == [ty |-> "float", n |-> n, s |-> ""]

StrV(s) == [ty |-> "str", n |-> 0, s |-> s]

BoolV(b) == [ty |-> "bool", n |-> IF b THEN 1 ELSE 0, s |-> ""]

NoneV == [ty |-> "NoneType", n |-> 0, s |-> ""]

NumericTypes == {"int", "float", "bool"}

\* Python's a == b.
PyEq(a, b) ==
    IF a.ty \in NumericTypes /\ b.ty \in NumericTypes THEN a.n = b.n
    ELSE a.ty = b.ty /\ a.s = b.s

\* Python's isinstance(uv, ty): bool is a subclass of int.
IsInstance(uv, ty) == uv.ty = ty \/ (ty = "int" /\ uv.ty = "bool")

\* ty_str_to_allowed_python_ty_set (lines 50-56).
AllowedPythonTypes(type) ==
    CASE type = "str" -> {"str"}
      [] type = "int" -> {"int"}
      [] type = "float" -> {"float"}
      [] type = "bool" -> {"bool"}
      [] type = "uuid" -> {"str", "NoneType"}

\* is_proper_type (line 67).
IsProperType(uv, type) ==
    \E ty \in AllowedPythonTypes(type) : IsInstance(uv, ty)

\* The options dict of one parameter: each key absent (None) or present.
Options(min, max, choices) == [min |-> min, max |-> max, choices |-> choices]

\* One entry of Session.parameter_info (lines 119-130); options is None when
\* the generator info gives none for the parameter.
ParamInfo(type, default_value, options) ==
    [type |-> type, default_value |-> default_value, options |-> options]

\* A plausible slip: the bounds taken as exclusive.
KeyConstraintViolationsExclusive(uk, uv, param_options) ==
    {[param |-> uk, constraint |-> "min", value |-> uv] :
        x \in {y \in {"min"} : /\ param_options.min # None
                               /\ uv.n <= param_options.min[1].n}}
    \cup
    {[param |-> uk, constraint |-> "max", value |-> uv] :
        x \in {y \in {"max"} : /\ param_options.max # None
                               /\ uv.n >= param_options.max[1].n}}
    \cup
    {[param |-> uk, constraint |-> "choices", value |-> uv] :
        x \in {y \in {"choices"} :
                  /\ param_options.choices # None
                  /\ ~\E c \in param_options.choices[1] : PyEq(uv, c)}}

\* The constraint violations of one supported, properly typed key (lines
\* 71-83), each as (name, constraint kind, value).
KeyConstraintViolations(uk, uv, param_options) ==
    {[param |-> uk, constraint |-> "min", value |-> uv] :
        x \in {y \in {"min"} : /\ param_options.min # None
                               /\ uv.n < param_options.min[1].n}}
    \cup
    {[param |-> uk, constraint |-> "max", value |-> uv] :
        x \in {y \in {"max"} : /\ param_options.max # None
                               /\ uv.n > param_options.max[1].n}}
    \cup
    {[param |-> uk, constraint |-> "choices", value |-> uv] :
        x \in {y \in {"choices"} :
                  /\ param_options.choices # None
                  /\ ~\E c \in param_options.choices[1] : PyEq(uv, c)}}

\* Session._validate_params (lines 49-105).  The result is None or the
\* error description, here the three collections it is formatted from;
\* raised is the exception that escapes instead, "" when none: with options
\* None, `"min" in param_options` (line 72) is a TypeError.
ValidateParams(pinfo, user_params) ==
    LET unsupported == {uk \in DOMAIN user_params : uk \notin DOMAIN pinfo}
        supported == DOMAIN user_params \ unsupported
        mistyped == {uk \in supported :
                        ~IsProperType(user_params[uk], pinfo[uk].type)}
        checked == supported \ mistyped
        type_violations ==
            {[param |-> uk, got |-> user_params[uk].ty] : uk \in mistyped}
        constraint_violations ==
            UNION {KeyConstraintViolations(uk, user_params[uk],
                                           pinfo[uk].options[1]) :
                       uk \in checked}
    IN IF \E uk \in checked : pinfo[uk].options = None
       THEN [raised |-> "TypeError", error |-> None]
       ELSE [raised |-> "",
             error |->
                 IF /\ unsupported = {}
                    /\ type_violations = {}
                    /\ constraint_violations = {}
                 THEN None
                 ELSE Some([unsupported |-> unsupported,
                            type_violations |-> type_violations,
                            constraint_violations |-> constraint_violations])]

\* Session.validate_job_params (lines 107-116): one result per entry, in
\* order; an exception of any entry escapes.
validate_job_params(pinfo, params_list) ==
    LET each == [i \in 1..Len(params_list) |->
                    ValidateParams(pinfo, params_list[i])]
    IN IF \E i \in 1..Len(params_list) : each[i].raised # ""
       THEN [raised |-> "TypeError", errors |-> <<>>]
       ELSE [raised |-> "",
             errors |-> [i \in 1..Len(params_list) |-> each[i].error]]

\* Session.default_job (lines 133-136).
default_job(pinfo) == [k \in DOMAIN pinfo |-> pinfo[k].default_value]

\* The whole numbers from the lesser of a and b to the greater: the floats
\* random.uniform(a, b) may return, whichever of the two is the greater.
Between(a, b) == IF a <= b THEN a..b ELSE b..a

\* A plausible slip: min and max looked at before choices.
SampleValuesMinMaxFirst(v) ==
    IF v.options # None
    THEN IF v.options[1].min # None /\ v.options[1].max # None
         THEN IF v.type = "int"
              THEN {IntV(n) :
                       n \in v.options[1].min[1].n..v.options[1].max[1].n}
              ELSE IF v.type = "float"
                   THEN {FloatV(n) :
                            n \in Between(v.options[1].min[1].n,
                                          v.options[1].max[1].n)}
                   ELSE {v.default_value}
         ELSE IF v.options[1].choices # None
              THEN v.options[1].choices[1]
              ELSE {v.default_value}
    ELSE {v.default_value}

\* The values Session.random_job may draw for one parameter (lines 149-164):
\* random.choice of the choices, random.randint(mn, mx) for an int,
\* random.uniform(mn, mx) for a float, else the default.  The set is empty
\* when the draw raises.
SampleValues(v) ==
    IF v.options # None
    THEN IF v.options[1].choices # None
         THEN v.options[1].choices[1]
         ELSE IF v.options[1].min # None /\ v.options[1].max # None
              THEN IF v.type = "int"
                   THEN {IntV(n) :
                            n \in v.options[1].min[1].n..v.options[1].max[1].n}
                   ELSE IF v.type = "float"
                        THEN {FloatV(n) :
                                 n \in Between(v.options[1].min[1].n,
                                               v.options[1].max[1].n)}
                        ELSE {v.default_value}
              ELSE {v.default_value}
    ELSE {v.default_value}

\* The exception the draw for one parameter raises, "" when none:
\* random.choice of an empty sequence is IndexError (line 152) and
\* random.randint of an empty range ValueError (line 156).
SampleRaises(v) ==
    IF v.options # None /\ v.options[1].choices # None
    THEN IF v.options[1].choices[1] = {} THEN "IndexError" ELSE ""
    ELSE IF SampleValues(v) = {} THEN "ValueError" ELSE ""

\* Every job Session.random_job may return (lines 138-166).
random_job(pinfo) ==
    {f \in [DOMAIN pinfo -> UNION {SampleValues(pinfo[k]) : k \in DOMAIN pinfo}] :
        \A k \in DOMAIN pinfo : f[k] \in SampleValues(pinfo[k])}

\* A plausible slip: {**jp, **baseline}, the baseline's keys win.
MergeBaselineWins(baseline, jp) ==
    [k \in DOMAIN baseline \cup DOMAIN jp |->
        IF k \in DOMAIN baseline THEN baseline[k] ELSE jp[k]]

\* {**baseline, **jp} (lines 206 and 208): the user's keys win.
Merge(baseline, jp) ==
    [k \in DOMAIN baseline \cup DOMAIN jp |->
        IF k \in DOMAIN jp THEN jp[k] ELSE baseline[k]]

\* A plausible slip: a declared options.preview is taken as a yes, be it
\* false.
PreviewsAllowedWhenDeclared(info) == info.preview # None

\* previews_allowed (lines 190-194); the info's options.preview is None
\* when the generator info does not give it.
PreviewsAllowed(info) == info.preview = Some(TRUE)

\* The generator infos a Session may have fetched: a well-formed one shaped
\* like the fixture of session_test.py, one whose default violates its own
\* constraint, and two with a parameter that declares no options.
BaseParams(p1_default) ==
    [p1 |-> ParamInfo("int", IntV(p1_default),
                      Some(Options(Some(IntV(1)), Some(IntV(2)), None))),
     p2 |-> ParamInfo("str", StrV("A"),
                      Some(Options(None, None, Some({StrV("A"), StrV("B")}))))]

WithP3(params, options) ==
    [k \in DOMAIN params \cup {"p3"} |->
        IF k = "p3" THEN ParamInfo("uuid", NoneV, options) ELSE params[k]]

GeneratorInfos ==
    {[params |-> BaseParams(1), preview |-> Some(TRUE)],
     [params |-> BaseParams(9), preview |-> Some(FALSE)],
     [params |-> WithP3(BaseParams(1), Some(Options(None, None, None))),
      preview |-> None],
     [params |-> WithP3(BaseParams(1), None), preview |-> Some(TRUE)],
     [params |-> WithP3(BaseParams(9), None), preview |-> Some(TRUE)]}

\* The parameter sets a user may put in job_params.
UserParamSets ==
    {<<>>,
     [p1 |-> IntV(2)],
     [p1 |-> IntV(10)],
     [p1 |-> StrV("2"), px |-> IntV(1)],
     [p3 |-> StrV("u")],
     [p2 |-> StrV("C")]}

NoArgs == [job_params |-> <<>>, is_preview |-> FALSE, random_sample |-> FALSE]

\* How a submit call ends: kind is "returned" or the exception's name,
\* payload the exception's argument, complete the completed parameter sets,
\* posted whether the batch POST was issued, batch_id the returned Batch.
Outcome(kind, payload, complete, was_posted, batch_id) ==
    [kind |-> kind, payload |-> payload, complete |-> complete,
     posted |-> was_posted, batch_id |-> batch_id]

NoOutcome == Outcome("", <<>>, <<>>, FALSE, None)

\* A plausible slip: one list object for every Session, as a class
\* attribute or a shared default would be.
NewListShared(allocated) == 1

\* default_factory=list (line 41): each construction gets a list object
\* of its own, here named by the number of lists allocated so far plus one.
NewList(allocated) == allocated + 1

\* The Session that is called and the second one.
Self == 1

Other == 2

SessionInit ==
    /\ generator_info \in GeneratorInfos
    /\ batches = <<>>
    /\ list_of = [session \in {Self, Other} |-> NewList(session - 1)]
    /\ other_batches = <<>>
    /\ s_args = NoArgs
    /\ s_out = NoOutcome
    /\ s_posts = 0
    /\ s_calls = 0
    /\ remote_batches = 0
    /\ s_pc = "idle"

\* The session part at rest, for the specifications of the other parts.
SessionIdle ==
    /\ generator_info = [params |-> <<>>, preview |-> None]
    /\ batches = <<>>
    /\ list_of = <<>>
    /\ other_batches = <<>>
    /\ s_args = NoArgs
    /\ s_out = NoOutcome
    /\ s_posts = 0
    /\ s_calls = 0
    /\ remote_batches = 0
    /\ s_pc = "idle"

\* The user calls session.submit(job_params, is_preview, random_sample).
Call ==
    /\ s_pc = "idle"
    /\ s_calls < MaxCalls
    /\ \E jp \in UNION {[1..n -> UserParamSets] : n \in 0..MaxEntries},
          is_preview \in BOOLEAN, random_sample \in BOOLEAN :
          s_args' = [job_params |-> jp, is_preview |-> is_preview,
                     random_sample |-> random_sample]
    /\ s_calls' = s_calls + 1
    /\ s_pc' = "called"
    /\ UNCHANGED <<generator_info, batches, s_out, s_posts, remote_batches,
                   list_of, other_batches>>
    /\ SessionFrame

\* The call ends with outcome o without a POST having been issued.
EndsWithoutPost(o) ==
    /\ s_out' = o
    /\ UNCHANGED <<batches, s_posts, remote_batches, other_batches>>

\* self.batches.append(batch) (line 225): the list object of the Session
\* called gets the batch, and with it every Session whose batches field is
\* that same object.
AppendBatch(batch_id) ==
    /\ batches' = Append(batches, batch_id)
    /\ other_batches' =
           IF list_of[Other] = list_of[Self]
           THEN Append(other_batches, batch_id) ELSE other_batches

\* submit_batch (infinity_core/batch.py lines 337-351) on the completed
\* parameter sets: the POST is refused (HTTPError), or accepted and then
\* _parse_jobs_from_response_data reads job_runs[0] (line 42), IndexError
\* for a batch without jobs, or its generator-info request is refused
\* (HTTPError), or all goes well and the Batch is appended and returned
\* (session.py lines 217-226).
PostBatch(complete) ==
    /\ s_posts' = s_posts + 1
    /\ \E answer \in {"ok", "post refused", "info refused"} :
          IF answer = "post refused"
          THEN /\ s_out' = Outcome("HTTPError", <<>>, complete, TRUE, None)
               /\ UNCHANGED <<batches, remote_batches, other_batches>>
          ELSE IF Len(complete) = 0
          THEN /\ remote_batches' = remote_batches + 1
               /\ s_out' = Outcome("IndexError", <<>>, complete, TRUE, None)
               /\ UNCHANGED <<batches, other_batches>>
          ELSE IF answer = "info refused"
          THEN /\ remote_batches' = remote_batches + 1
               /\ s_out' = Outcome("HTTPError", <<>>, complete, TRUE, None)
               /\ UNCHANGED <<batches, other_batches>>
          ELSE /\ remote_batches' = remote_batches + 1
               /\ AppendBatch(remote_batches + 1)
               /\ s_out' = Outcome("returned", <<>>, complete, TRUE,
                                   Some(remote_batches + 1))

\* Session.submit (lines 189-226), from entry to return or raise.
Submit ==
    /\ s_pc = "called"
    /\ s_pc' = "done"
    /\ LET pinfo == generator_info.params
           jp == s_args.job_params
           user_input_errors == validate_job_params(pinfo, jp)
       IN IF s_args.is_preview /\ ~PreviewsAllowed(generator_info)
          THEN EndsWithoutPost(Outcome("ValueError", <<>>, <<>>, FALSE, None))
          ELSE IF user_input_errors.raised # ""
          THEN EndsWithoutPost(Outcome(user_input_errors.raised, <<>>, <<>>,
                                       FALSE, None))
          ELSE IF \E i \in 1..Len(jp) : user_input_errors.errors[i] # None
          THEN EndsWithoutPost(Outcome("ParameterValidationError",
                                       user_input_errors.errors, <<>>, FALSE,
                                       None))
          ELSE \E baseline \in [1..Len(jp) ->
                                   IF s_args.random_sample
                                   THEN random_job(pinfo)
                                   ELSE {default_job(pinfo)}] :
                 LET complete_params ==
                         [i \in 1..Len(jp) |-> Merge(baseline[i], jp[i])]
                     errors == validate_job_params(pinfo, complete_params)
                 IN IF errors.raised # ""
                    THEN EndsWithoutPost(Outcome(errors.raised, <<>>,
                                                 complete_params, FALSE, None))
                    ELSE IF \E i \in 1..Len(jp) : errors.errors[i] # None
                    THEN EndsWithoutPost(Outcome("ParameterValidationError",
                                                 errors.errors,
                                                 complete_params, FALSE, None))
                    ELSE PostBatch(complete_params)
    /\ UNCHANGED <<generator_info, s_args, s_calls, list_of>>
    /\ SessionFrame

\* The caller has the result (or the exception) and the session is at rest.
Return ==
    /\ s_pc = "done"
    /\ s_pc' = "idle"
    /\ s_args' = NoArgs
    /\ s_out' = NoOutcome
    /\ UNCHANGED <<generator_info, batches, s_posts, s_calls, remote_batches,
                   list_of, other_batches>>
    /\ SessionFrame

SessionNext ==
    \/ Call
    \/ Submit
    \/ Return

(***************************************************************************)
(* Claims about Session.submit.                                            *)
(***************************************************************************)
\* Whether the parameter set up has a violation against the schema pinfo: a
\* key the schema does not have, a value whose type the declared type does
\* not allow, or a value outside min/max or choices.
EntryViolates(pinfo, up) ==
    \E uk \in DOMAIN up :
        \/ uk \notin DOMAIN pinfo
        \/ /\ uk \in DOMAIN pinfo
           /\ \/ ~IsProperType(up[uk], pinfo[uk].type)
              \/ /\ IsProperType(up[uk], pinfo[uk].type)
                 /\ pinfo[uk].options # None
                 /\ LET o == pinfo[uk].options[1]
                    IN \/ o.min # None /\ up[uk].n < o.min[1].n
                       \/ o.max # None /\ up[uk].n > o.max[1].n
                       \/ /\ o.choices # None
                          /\ \A c \in o.choices[1] : ~PyEq(up[uk], c)

\* Whether the submit call got past its preview check.
PastPreviewCheck ==
    ~(s_args.is_preview /\ ~PreviewsAllowed(generator_info))

\* C4: a submit call (past its preview check) one of whose entries has a
\* violation ends with ParameterValidationError carrying one result per
\* entry, in order, None exactly for the entries without violation, and has
\* issued no POST.
C4_InvalidEntryRaisesFullList ==
    (/\ s_pc = "done"
     /\ PastPreviewCheck
     /\ \E i \in 1..Len(s_args.job_params) :
            EntryViolates(generator_info.params, s_args.job_params[i])) =>
        /\ s_out.kind = "ParameterValidationError"
        /\ Len(s_out.payload) = Len(s_args.job_params)
        /\ \A i \in 1..Len(s_args.job_params) :
               (s_out.payload[i] = None) <=>
                   ~EntryViolates(generator_info.params,
                                  s_args.job_params[i])
        /\ ~s_out.posted
        /\ s_out.batch_id = None

\* C5: the batch POST is issued only with completed parameter sets none of
\* which has a violation, and a call whose completed sets include one with
\* a violation ends with ParameterValidationError and no POST.
C5_NeverPostsInvalid ==
    /\ (s_pc = "done" /\ s_out.posted) =>
           \A i \in 1..Len(s_out.complete) :
               ~EntryViolates(generator_info.params, s_out.complete[i])
    /\ (/\ s_pc = "done"
        /\ \E i \in 1..Len(s_out.complete) :
               EntryViolates(generator_info.params, s_out.complete[i])) =>
           /\ s_out.kind = "ParameterValidationError"
           /\ ~s_out.posted

\* Whether every parameter of the session's generator declares options.
EveryParamHasOptions ==
    \A k \in DOMAIN generator_info.params :
        generator_info.params[k].options # None

\* C4 and C5 do hold of the sessions whose generator declares options for
\* every parameter.
C4_WhenOptionsDeclared == EveryParamHasOptions => C4_InvalidEntryRaisesFullList

C5_WhenOptionsDeclared == EveryParamHasOptions => C5_NeverPostsInvalid

(***************************************************************************)
(*              PART 3: infinity_core/batch.py Batch.download              *)
(*                                                                         *)
(* The target folder is d_exists (whether it is there), d_marker (the      *)
(* content of batch_id.txt), d_dirs (the names of its subdirectories) and  *)
(* d_loose (the jobs whose files lie directly in it).  Ids hold no         *)
(* whitespace and no dot, so str.strip and Path.stem leave them alone.     *)
(***************************************************************************)
\* The job ids of the Batch that is downloaded.
DownloadJobs == {<<"job", i>> : i \in 1..MaxDownloadJobs}

\* self.batch_id of that Batch.
ThisBatch == "batch-1"

\* The batch ids a marker file left by an earlier download may hold.
MarkerIds == {ThisBatch, "batch-2"}

\* What the main thread reads with the marker check of lines 262-270: the
\* folder's marker names another batch.
MarkerNamesOtherBatch == d_marker # None /\ d_marker[1] # ThisBatch

\* A plausible slip: the check is lost (its DownloadError swallowed by a
\* broad except).
MarkerCheckNever == FALSE

\* Lines 260-268: whether download raises the mismatch DownloadError.
MarkerCheckRaises == ~d_overwrite /\ d_exists /\ MarkerNamesOtherBatch

\* The fields of the CompletedJob dataclass (data_structures.py lines
\* 60-63).
CompletedJobFields == {"uid", "generator", "params", "result_url"}

\* The keyword arguments get_completed_jobs constructs a CompletedJob with
\* (batch.py lines 192-194).
CompletedJobKeywords == {"job_id", "generator", "params", "result_url"}

\* A plausible slip: the call is taken to match the dataclass.
ConstructsAnyKeywords(keywords, fields) == TRUE

\* A dataclass's __init__ accepts a call by keywords when each keyword is
\* one of its fields (none of the calls here leaves out a field without a
\* default); otherwise it raises TypeError.
Constructs(keywords, fields) == keywords \subseteq fields

\* The jobs a summary reports as not in progress, given each job's remote
\* state.
CompletedRuns(remote) == {j \in DOMAIN remote : remote[j] # "in_progress"}

\* Whether get_completed_jobs (lines 185-197) raises TypeError on an
\* answered summary: it does when it comes to construct its first
\* CompletedJob and the constructor does not accept the call.
GetCompletedJobsRaises(remote) ==
    /\ CompletedRuns(remote) # {}
    /\ ~Constructs(CompletedJobKeywords, CompletedJobFields)

\* The valid completed jobs of the batch: those the summary reports as not
\* in progress and with a result url (lines 189-190 and 212).
ValidCompletedJobs == {j \in DownloadJobs : d_remote[j] = "valid"}

\* A plausible slip: the already downloaded jobs are not filtered out.
DownloadableIgnoringExisting == ValidCompletedJobs

\* downloadable_jobs (lines 260-277).
DownloadableJobs ==
    IF ~d_overwrite /\ d_exists
    THEN {j \in ValidCompletedJobs : j \notin d_dirs}
    ELSE ValidCompletedJobs

\* The folder as a record, to compare it before and after.
Folder ==
    [exists |-> d_exists, marker |-> d_marker, dirs |-> d_dirs,
     loose |-> d_loose]

DownloadInit ==
    /\ d_remote \in [DownloadJobs -> {"in_progress", "invalid", "valid"}]
    /\ d_layout \in {"job_dir", "flat"}
    /\ d_overwrite \in BOOLEAN
    /\ d_exists \in BOOLEAN
    /\ d_marker \in {None} \cup {Some(b) : b \in MarkerIds}
    /\ d_dirs \in SUBSET DownloadJobs
    /\ d_exists = FALSE => (d_marker = None /\ d_dirs = {})
    /\ d_loose = {}
    /\ d_before = Folder
    /\ d_tasks = [j \in DownloadJobs |-> "none"]
    /\ d_submitted = {}
    /\ d_handled = {}
    /\ d_fetched = {}
    /\ d_failed_jobs = <<>>
    /\ d_num_completed = 0
    /\ d_requests = 0
    /\ d_calls = 1
    /\ d_err = ""
    /\ d_pc = "start"

\* The download part at rest, for the specifications of the other parts.
DownloadIdle ==
    /\ d_remote = <<>>
    /\ d_layout = "job_dir"
    /\ d_overwrite = FALSE
    /\ d_exists = FALSE
    /\ d_marker = None
    /\ d_dirs = {}
    /\ d_loose = {}
    /\ d_before = [exists |-> FALSE, marker |-> None, dirs |-> {},
                   loose |-> {}]
    /\ d_tasks = <<>>
    /\ d_submitted = {}
    /\ d_handled = {}
    /\ d_fetched = {}
    /\ d_failed_jobs = <<>>
    /\ d_num_completed = 0
    /\ d_requests = 0
    /\ d_calls = 0
    /\ d_err = ""
    /\ d_pc = "idle"

\* Lines 258-284, the main thread up to the submission of the tasks: the
\* marker check, the summary request and the construction of the completed
\* jobs from it, the filter of the jobs already there, mkdir, the marker
\* written, one task per downloadable job handed to the pool.
DownloadStart ==
    /\ d_pc = "start"
    /\ IF MarkerCheckRaises
       THEN /\ d_pc' = "raised"
            /\ d_err' = "DownloadError: batch id mismatch"
            /\ UNCHANGED <<d_exists, d_marker, d_tasks, d_submitted,
                           d_requests>>
       ELSE /\ d_requests' = d_requests + 1
            /\ \/ /\ d_pc' = "raised"
                  /\ d_err' = "HTTPError"
                  /\ UNCHANGED <<d_exists, d_marker, d_tasks, d_submitted>>
               \/ /\ GetCompletedJobsRaises(d_remote)
                  /\ d_pc' = "raised"
                  /\ d_err' = "TypeError"
                  /\ UNCHANGED <<d_exists, d_marker, d_tasks, d_submitted>>
               \/ /\ ~GetCompletedJobsRaises(d_remote)
                  /\ d_pc' = "pool"
                  /\ d_err' = ""
                  /\ d_submitted' = DownloadableJobs
                  /\ d_tasks' = [j \in DownloadJobs |->
                                    IF j \in DownloadableJobs
                                    THEN "queued" ELSE "none"]
                  /\ d_exists' = TRUE
                  /\ d_marker' = Some(ThisBatch)
    /\ UNCHANGED <<d_remote, d_layout, d_overwrite, d_dirs, d_loose,
                   d_before, d_handled, d_fetched, d_failed_jobs,
                   d_num_completed, d_calls>>
    /\ DownloadFrame

\* What extractall of job j's archive into the folder leaves there: the
\* archive's own top-level folder, or its files directly.
Extracted(j) ==
    /\ d_exists' = TRUE
    /\ d_dirs' = IF d_layout = "job_dir" THEN d_dirs \cup {j} ELSE d_dirs
    /\ d_loose' = IF d_layout = "flat" THEN d_loose \cup {j} ELSE d_loose

\* A pool worker runs _download_and_extract_zip for job j (lines 59-63):
\* GET of the result url, then extraction into the target folder itself.
\* It succeeds, or raises before anything is written (no answer, no zip),
\* or raises with the extraction half done.
TaskRun(j) ==
    /\ d_pc = "pool"
    /\ d_tasks[j] = "queued"
    /\ d_fetched' = d_fetched \cup {j}
    /\ \/ /\ d_tasks' = [d_tasks EXCEPT ![j] = "ok"]
          /\ Extracted(j)
       \/ /\ d_tasks' = [d_tasks EXCEPT ![j] = "failed"]
          /\ UNCHANGED <<d_exists, d_dirs, d_loose>>
       \/ /\ d_tasks' = [d_tasks EXCEPT ![j] = "failed"]
          /\ Extracted(j)
    /\ UNCHANGED <<d_remote, d_layout, d_overwrite, d_marker, d_before,
                   d_submitted, d_handled, d_failed_jobs, d_num_completed,
                   d_requests, d_calls, d_err, d_pc>>
    /\ DownloadFrame

\* A plausible slip: the failed job is not recorded.
RecordFailure_Dropped(jid) == d_failed_jobs

\* failed_jobs.append(jid) (line 298).
RecordFailure(jid) == Append(d_failed_jobs, jid)

\* The main thread takes one finished future from as_completed and handles
\* it (lines 288-301).  For a failed one, out_path is the third element of
\* the task's download_info, which line 279 sets to out_dir: rmtree removes
\* the target folder with all it holds.
HandleFuture(jid) ==
    /\ d_pc = "pool"
    /\ d_tasks[jid] \in {"ok", "failed"}
    /\ jid \notin d_handled
    /\ d_handled' = d_handled \cup {jid}
    /\ IF d_tasks[jid] = "failed"
       THEN /\ IF d_exists
               THEN /\ d_exists' = FALSE
                    /\ d_marker' = None
                    /\ d_dirs' = {}
                    /\ d_loose' = {}
               ELSE UNCHANGED <<d_exists, d_marker, d_dirs, d_loose>>
            /\ d_failed_jobs' = RecordFailure(jid)
            /\ d_num_completed' = d_num_completed
       ELSE /\ d_num_completed' = d_num_completed + 1
            /\ UNCHANGED <<d_exists, d_marker, d_dirs, d_loose,
                           d_failed_jobs>>
    /\ UNCHANGED <<d_remote, d_layout, d_overwrite, d_before, d_tasks,
                   d_submitted, d_fetched, d_requests, d_calls, d_err>>
    /\ UNCHANGED d_pc
    /\ DownloadFrame

\* A plausible slip: the comparison of line 303 inverted.
SomeJobFailedInverted(num_jobs_completed, num_total_jobs) ==
    num_jobs_completed = num_total_jobs

\* The test of line 303.
SomeJobFailed(num_jobs_completed, num_total_jobs) ==
    num_jobs_completed # num_total_jobs

\* as_completed is exhausted and the pool shut down; lines 303-308.
DownloadEnd ==
    /\ d_pc = "pool"
    /\ d_handled = d_submitted
    /\ IF SomeJobFailed(d_num_completed, Cardinality(d_submitted))
       THEN d_pc' = "raised" /\ d_err' = "DownloadError: jobs failed"
       ELSE d_pc' = "returned" /\ d_err' = ""
    /\ UNCHANGED <<d_remote, d_layout, d_overwrite, d_exists, d_marker,
                   d_dirs, d_loose, d_before, d_tasks, d_submitted,
                   d_handled, d_fetched, d_failed_jobs, d_num_completed,
                   d_requests, d_calls>>
    /\ DownloadFrame

\* The caller calls download again on the same folder, after the remote has
\* made progress or not.
DownloadAgain ==
    /\ d_pc \in {"returned", "raised"}
    /\ d_calls < MaxDownloads
    /\ d_calls' = d_calls + 1
    /\ d_overwrite' \in BOOLEAN
    /\ d_remote' \in {r \in [DownloadJobs -> {"in_progress", "invalid",
                                              "valid"}] :
                         \A j \in DownloadJobs :
                             d_remote[j] # "in_progress" =>
                                 r[j] = d_remote[j]}
    /\ d_before' = Folder
    /\ d_tasks' = [j \in DownloadJobs |-> "none"]
    /\ d_submitted' = {}
    /\ d_handled' = {}
    /\ d_fetched' = {}
    /\ d_failed_jobs' = <<>>
    /\ d_num_completed' = 0
    /\ d_requests' = 0
    /\ d_err' = ""
    /\ d_pc' = "start"
    /\ UNCHANGED <<d_layout, d_exists, d_marker, d_dirs, d_loose>>
    /\ DownloadFrame

\* TaskRun and HandleFuture are no steps of any run: download_info is empty
\* whenever line 279 is reached, since get_valid_completed_jobs raises as
\* soon as the summary reports a completed job.
DownloadNext ==
    \/ DownloadStart
    \/ DownloadEnd
    \/ DownloadAgain

(***************************************************************************)
(*                       Claims on Batch.download                          *)
(***************************************************************************)
\* The download call is over, with a return or with an exception.
DownloadEnded == d_pc \in {"returned", "raised"}

\* The call raised DownloadError, for either of its two causes.
RaisedDownloadError ==
    /\ d_pc = "raised"
    /\ d_err \in {"DownloadError: batch id mismatch",
                  "DownloadError: jobs failed"}

\* The jobs whose download task raised in this call.
FailedTasks == {j \in DownloadJobs : d_tasks[j] = "failed"}

\* The call began with overwrite=False on an existing folder whose marker
\* names another batch.
StartedOnOtherBatchsFolder ==
    /\ ~d_overwrite
    /\ d_before.exists
    /\ d_before.marker # None
    /\ d_before.marker[1] # ThisBatch

\* What DownloadError reports when tasks failed: every submitted task has
\* finished, failed_jobs holds each failed job once and no other, and
\* completed plus failed is the number of downloadable jobs.
FailureReportExact ==
    /\ \A j \in d_submitted : d_tasks[j] \in {"ok", "failed"}
    /\ {d_failed_jobs[i] : i \in 1..Len(d_failed_jobs)} = FailedTasks
    /\ Len(d_failed_jobs) = Cardinality(FailedTasks)
    /\ d_num_completed + Len(d_failed_jobs) = Cardinality(d_submitted)

InFolder(j) == j \in d_dirs \/ j \in d_loose

\* C7: when a download call that ran its tasks is over, the marker file is
\* there, every job whose task succeeded has its files there, and every
\* directory that was there before and is not of a failed job is there.
C7_OnlyFailedJobDirRemoved ==
    (DownloadEnded /\ d_submitted # {}) =>
        /\ d_marker = Some(ThisBatch)
        /\ \A j \in d_submitted : d_tasks[j] = "ok" => InFolder(j)
        /\ \A j \in d_before.dirs : j \notin FailedTasks => j \in d_dirs

\* C8: a call begun with overwrite=False on an existing folder whose marker
\* names another batch raises DownloadError with no summary requested and
\* no result fetched, and the folder is as it was.
C8_MismatchRaisesBeforeFetch ==
    StartedOnOtherBatchsFolder =>
        /\ d_pc \in {"start", "raised"}
        /\ d_pc = "raised" => d_err = "DownloadError: batch id mismatch"
        /\ d_requests = 0
        /\ d_fetched = {}
        /\ Folder = d_before

\* The call raised on another batch's folder that holds job directories,
\* with jobs ready to download.
C8_Witness ==
    /\ StartedOnOtherBatchsFolder
    /\ d_pc = "raised"
    /\ d_dirs # {}
    /\ ValidCompletedJobs # {}

\* C9 as stated: a call with overwrite=False into an existing folder never
\* fetches a job whose subdirectory was there, and once over has fetched
\* every other valid completed job.
C9_SkipsExistingFetchesRest ==
    (~d_overwrite /\ d_before.exists) =>
        /\ d_fetched \cap d_before.dirs = {}
        /\ DownloadEnded => d_fetched = ValidCompletedJobs \ d_before.dirs

\* The call got past the marker check and its summary request was
\* answered.
PastMarkerAndSummary ==
    \/ d_pc = "pool"
    \/ /\ DownloadEnded
       /\ d_err # "HTTPError"
       /\ d_err # "DownloadError: batch id mismatch"

\* C9 for the calls that get past the marker check and whose summary
\* request is answered: a call with overwrite=False into an existing folder
\* never fetches a job whose subdirectory was there, and once over it has
\* fetched every other valid completed job.
C9_SkipsExistingFetchesRestPastChecks ==
    (~d_overwrite /\ d_before.exists) =>
        /\ d_fetched \cap d_before.dirs = {}
        /\ (DownloadEnded /\ PastMarkerAndSummary) =>
               d_fetched = ValidCompletedJobs \ d_before.dirs

\* C30: when a download call with overwrite=True has returned, the folder
\* holds only what this call downloaded for this batch: its marker names
\* this batch and every job directory and every loose job file in it was
\* fetched by this call, so that nothing from before the call remains.
C30_OverwriteLeavesOnlyThisDownload ==
    (d_overwrite /\ d_pc = "returned") =>
        /\ d_marker = Some(ThisBatch)
        /\ d_dirs \cup d_loose \subseteq d_fetched
        /\ d_before.dirs \cap d_dirs \subseteq d_fetched

\* What does hold: a call with overwrite=True removes nothing, every
\* subdirectory that was there before the call is there after it.
C30_OverwriteRemovesNothing ==
    (d_overwrite /\ DownloadEnded) => d_before.dirs \subseteq d_dirs

\* C31: when a download call that got past the marker check and whose
\* summary request was answered is over, it has returned and every valid
\* completed job of the batch has its own subdirectory <jobId> in the
\* target folder, so that a repeated call with overwrite=False finds every
\* one of them there and has nothing left to fetch.
C31_EachValidJobInOwnSubdirectory ==
    (DownloadEnded /\ PastMarkerAndSummary) =>
        /\ d_pc = "returned"
        /\ ValidCompletedJobs \subseteq d_dirs

\* What does hold: a call that returns has fetched nothing and has added no
\* subdirectory, since it returns only while no job of the batch has
\* completed.
C31_ReturnsOnlyWithNothingFetched ==
    d_pc = "returned" =>
        /\ CompletedRuns(d_remote) = {}
        /\ d_fetched = {}
        /\ d_dirs = d_before.dirs

(***************************************************************************)
(*          PART 4: infinity_core/batch.py Batch.await_completion          *)
(*                                                                         *)
(* Time is in whole seconds since the call began (start_time is 0).  The   *)
(* remote moves each job from in progress to done, with or without a       *)
(* result url, at its own pace or never.                                   *)
(***************************************************************************)
\* timedelta.seconds is the seconds within the day: the days of the
\* difference are a separate field that line 237 does not read.
SecondsPerDay == 86400

TimedeltaSeconds(delta) == delta % SecondsPerDay

\* The keys of self.jobs of a Batch of n jobs.
AwaitJobs(n) == 1..n

\* How long one summary request may take, in seconds.
RequestDurations == {0, 1, SecondsPerDay}

\* The polling_interval arguments tried; 10 is the default of line 215.
PollingIntervals == {1, 10}

\* The timeout arguments tried: none (the default), zero, a few seconds,
\* more than a day.
Timeouts == {None, Some(0), Some(5), Some(SecondsPerDay + 5)}

\* get_num_jobs_remaining (lines 101-113): num_jobs less the job runs of
\* the summary that are not in progress.
NumJobsRemaining ==
    a_num_jobs - Cardinality({j \in AwaitJobs(a_num_jobs) :
                                 a_remote[j] # "in_progress"})

\* The valid completed jobs of the awaited Batch: those the summary
\* reports as not in progress and with a result url.
AwaitValidCompletedJobs ==
    {j \in AwaitJobs(a_num_jobs) : a_remote[j] = "valid"}

AwaitInit ==
    /\ a_num_jobs \in 0..MaxAwaitJobs
    /\ a_remote = [j \in AwaitJobs(a_num_jobs) |-> "in_progress"]
    /\ a_polling_interval \in PollingIntervals
    /\ a_timeout \in Timeouts
    /\ a_now = 0
    /\ a_num_jobs_remaining = 0
    /\ a_observed = None
    /\ a_polls = 0
    /\ a_requests = 0
    /\ a_refused = 0
    /\ a_result = None
    /\ a_err = ""
    /\ a_pc = "start"

\* The await part at rest, for the specifications of the other parts.
AwaitIdle ==
    /\ a_num_jobs = 0
    /\ a_remote = <<>>
    /\ a_polling_interval = 0
    /\ a_timeout = None
    /\ a_now = 0
    /\ a_num_jobs_remaining = 0
    /\ a_observed = None
    /\ a_polls = 0
    /\ a_requests = 0
    /\ a_refused = 0
    /\ a_result = None
    /\ a_err = ""
    /\ a_pc = "idle"

\* The remote finishes job j, with a result url or without one.
RemoteProgress(j) ==
    /\ a_pc \in {"start", "loop"}
    /\ j \in DOMAIN a_remote
    /\ a_remote[j] = "in_progress"
    /\ \E s \in {"valid", "invalid"} :
           a_remote' = [a_remote EXCEPT ![j] = s]
    /\ UNCHANGED <<a_num_jobs, a_polling_interval, a_timeout, a_now,
                   a_num_jobs_remaining, a_observed, a_polls, a_requests,
                   a_refused, a_result, a_err, a_pc>>
    /\ AwaitFrame

\* A plausible slip: the test for the empty Batch is left out.
BatchIsEmptyNever(num_jobs) == FALSE

\* The test of line 230.
BatchIsEmpty(num_jobs) == num_jobs = 0

\* Lines 229-233: an empty Batch returns [] at once; otherwise the clock is
\* read and num_jobs_remaining starts at num_jobs.
AwaitStart ==
    /\ a_pc = "start"
    /\ IF BatchIsEmpty(a_num_jobs)
       THEN /\ a_pc' = "returned"
            /\ a_result' = Some({})
            /\ UNCHANGED a_num_jobs_remaining
       ELSE /\ a_pc' = "loop"
            /\ a_num_jobs_remaining' = a_num_jobs
            /\ UNCHANGED a_result
    /\ UNCHANGED <<a_num_jobs, a_remote, a_polling_interval, a_timeout,
                   a_now, a_observed, a_polls, a_requests, a_refused, a_err>>
    /\ AwaitFrame

\* Lines 238-240: the test runs after every poll, whatever the poll saw.
TimedOut(elapsed_time) ==
    a_timeout # None /\ elapsed_time > a_timeout[1]

\* A plausible slip: the status of the answer is not looked at.
RaiseForStatusIgnored(ok) == ""

\* r.raise_for_status() of get_batch_summary_data (line 139): the
\* exception raised for an answer, "" when its status is 2xx.
RaiseForStatus(ok) == IF ok THEN "" ELSE "HTTPError"

\* One iteration of the loop of lines 235-242: the summary request, which
\* takes d seconds and is answered with a 2xx status or not, the elapsed
\* time, the timeout test, the sleep.
PollIteration ==
    /\ a_pc = "loop"
    /\ a_num_jobs_remaining > 0
    /\ a_polls < MaxPolls
    /\ a_polls' = a_polls + 1
    /\ a_requests' = a_requests + 1
    /\ \E d \in RequestDurations, ok \in BOOLEAN :
          /\ a_refused' = IF ok THEN a_refused ELSE a_refused + 1
          /\ IF RaiseForStatus(ok) # ""
             THEN /\ a_now' = a_now + d
                  /\ a_pc' = "raised"
                  /\ a_err' = RaiseForStatus(ok)
                  /\ UNCHANGED <<a_num_jobs_remaining, a_observed>>
             ELSE /\ a_num_jobs_remaining' = NumJobsRemaining
                  /\ a_observed' = Some(NumJobsRemaining)
                  /\ IF TimedOut(TimedeltaSeconds(a_now + d))
                     THEN /\ a_now' = a_now + d
                          /\ a_pc' = "raised"
                          /\ a_err' = "TimeoutError"
                     ELSE /\ a_now' = a_now + d + a_polling_interval
                          /\ a_pc' = "loop"
                          /\ a_err' = ""
    /\ UNCHANGED <<a_num_jobs, a_remote, a_polling_interval, a_timeout,
                   a_result>>
    /\ AwaitFrame

\* Lines 244-247 once the loop test fails: the summary is requested again
\* and the valid completed jobs are built from it and returned, unless the
\* request is refused or the construction raises.
AwaitExit ==
    /\ a_pc = "loop"
    /\ a_num_jobs_remaining <= 0
    /\ a_requests' = a_requests + 1
    /\ \E ok \in BOOLEAN :
          /\ a_refused' = IF ok THEN a_refused ELSE a_refused + 1
          /\ IF RaiseForStatus(ok) # ""
             THEN /\ a_pc' = "raised"
                  /\ a_err' = RaiseForStatus(ok)
                  /\ UNCHANGED a_result
             ELSE IF GetCompletedJobsRaises(a_remote)
             THEN /\ a_pc' = "raised"
                  /\ a_err' = "TypeError"
                  /\ UNCHANGED a_result
             ELSE /\ a_pc' = "returned"
                  /\ a_result' = Some(AwaitValidCompletedJobs)
                  /\ a_err' = ""
    /\ UNCHANGED <<a_num_jobs, a_remote, a_polling_interval, a_timeout,
                   a_now, a_num_jobs_remaining, a_observed, a_polls>>
    /\ AwaitFrame

AwaitNext ==
    \/ \E j \in 1..MaxAwaitJobs : RemoteProgress(j)
    \/ AwaitStart
    \/ PollIteration
    \/ AwaitExit

(***************************************************************************)
(*                    Claims on Batch.await_completion                     *)
(***************************************************************************)
\* C10: await_completion never raises TimeoutError from a poll that saw
\* zero jobs remaining, whatever time has elapsed.
C10_ZeroRemainingNeverTimesOut ==
    (a_pc = "raised" /\ a_err = "TimeoutError") => a_observed # Some(0)

\* C11: with no timeout and no transport error, await_completion on a
\* non-empty batch never raises, and it has returned only when a poll saw
\* zero jobs remaining.
C11_ReturnsIffZeroObserved ==
    (a_num_jobs > 0 /\ a_timeout = None /\ a_err # "HTTPError") =>
        /\ a_pc # "raised"
        /\ a_pc = "returned" => a_observed = Some(0)

\* C12: await_completion on a batch with no job has returned the empty
\* list as soon as it has taken a step, with no request issued and no time
\* spent asleep.
C12_EmptyBatchReturnsAtOnce ==
    (a_num_jobs = 0 /\ a_pc # "start") =>
        /\ a_pc = "returned"
        /\ a_result = Some({})
        /\ a_requests = 0
        /\ a_polls = 0
        /\ a_now = 0

\* The call on an empty batch has returned.
C12_Witness == a_num_jobs = 0 /\ a_pc = "returned"

\* C13: while await_completion with a timeout goes on polling, the time
\* truly elapsed when it last tested the timeout (the sleep that followed
\* taken off the clock) did not exceed the timeout.
C13_TimeoutFiresOnTrueElapsed ==
    (a_pc = "loop" /\ a_polls > 0 /\ a_timeout # None) =>
        a_now - a_polling_interval <= a_timeout[1]

\* C29: there is no retry.  A summary request of await_completion, in a
\* poll (get_num_jobs_remaining) or after the loop (get_completed_jobs),
\* that is answered with a non-2xx status ends the call with HTTPError: at
\* most one request is ever refused, the call has then raised HTTPError,
\* and no request is issued after it.
C29_NoRetryAfterRefusedRequest ==
    /\ [](a_refused > 0 =>
             /\ a_refused = 1
             /\ a_pc = "raised"
             /\ a_err = "HTTPError")
    /\ [][a_refused > 0 => a_requests' = a_requests]_vars

\* The third poll was refused after two that were answered, and the call
\* raised HTTPError.
C29_Witness ==
    /\ a_pc = "raised"
    /\ a_err = "HTTPError"
    /\ a_refused = 1
    /\ a_polls = 3
    /\ a_requests = 3
    /\ a_observed # None

(***************************************************************************)
(*      PART 5: infinity_core/batch.py, the summary queries of a Batch     *)
(*                                                                         *)
(* q_jobs is the list of the keys of self.jobs in insertion order, and     *)
(* q_job_runs the "job_runs" list of the remote's summary, in the order    *)
(* the remote gives it.  The caller calls one query method at a time; the  *)
(* remote moves between the calls.                                         *)
(***************************************************************************)
\* The job ids a Batch may hold, in the order they were inserted.
QueryJobIds == [i \in 1..MaxQueryJobs |-> <<"job", i>>]

\* self.jobs[jid]: the parameters stored locally under a job id.
LocalParams(jid) == <<"params-of", jid>>

\* The result url the remote gives for a job with output.
ResultUrl(jid) == <<"url-of", jid>>

\* One entry of the summary's job_runs.
JobRun(id, in_progress, result_url) ==
    [id |-> id, in_progress |-> in_progress, result_url |-> result_url]

\* The states one job run may be in: in progress, completed without output,
\* completed with output.
JobRunsOf(id) ==
    {JobRun(id, TRUE, None), JobRun(id, FALSE, None),
     JobRun(id, FALSE, Some(ResultUrl(id)))}

\* The summaries the remote may answer with for a batch of n jobs: any
\* number of its jobs, each once, in any order.
Summaries(n) ==
    UNION {{s \in [1..k -> UNION {JobRunsOf(QueryJobIds[i]) : i \in 1..n}] :
               \A a, b \in 1..k : a # b => s[a].id # s[b].id} : k \in 0..n}

\* The loop of lines 108-111: the job runs of data not in progress, counted
\* over the first k entries.
RECURSIVE NumCompleted(_, _)
NumCompleted(job_runs, k) ==
    IF k = 0 THEN 0
    ELSE NumCompleted(job_runs, k - 1)
         + (IF ~job_runs[k].in_progress THEN 1 ELSE 0)

\* A plausible slip: the runs in progress are counted.
RemainingFromInProgressCount(num_jobs, job_runs) ==
    num_jobs - (Len(job_runs) - NumCompleted(job_runs, Len(job_runs)))

\* Line 113 of get_num_jobs_remaining.
Remaining(num_jobs, job_runs) ==
    num_jobs - NumCompleted(job_runs, Len(job_runs))

\* The object CompletedJob(job_id=..., params=..., result_url=...) would be.
CompletedJob(job_id, params, result_url) ==
    [job_id |-> job_id, params |-> params, result_url |-> result_url]

\* The loop of lines 188-195 over the first k entries of job_runs, were each
\* construction to succeed: the completed runs in the order of job_runs.
RECURSIVE CompletedJobsList(_, _)
CompletedJobsList(job_runs, k) ==
    IF k = 0 THEN <<>>
    ELSE IF ~job_runs[k].in_progress
         THEN Append(CompletedJobsList(job_runs, k - 1),
                     CompletedJob(job_runs[k].id, LocalParams(job_runs[k].id),
                                  job_runs[k].result_url))
         ELSE CompletedJobsList(job_runs, k - 1)

\* The filter of lines 209-213.
RECURSIVE ValidOnly(_, _)
ValidOnly(completed_jobs, k) ==
    IF k = 0 THEN <<>>
    ELSE IF completed_jobs[k].result_url # None
         THEN Append(ValidOnly(completed_jobs, k - 1), completed_jobs[k])
         ELSE ValidOnly(completed_jobs, k - 1)

\* How a query ends: kind is "returned" or the exception's name, num the
\* number returned, list the list returned.
QueryOutcome(kind, num, list) == [kind |-> kind, num |-> num, list |-> list]

\* get_completed_jobs (lines 185-197) on an answered summary: TypeError
\* from the first construction when the constructor does not accept the
\* call, the list otherwise.
GetCompletedJobs(job_runs) ==
    IF /\ NumCompleted(job_runs, Len(job_runs)) > 0
       /\ ~Constructs(CompletedJobKeywords, CompletedJobFields)
    THEN QueryOutcome("TypeError", 0, <<>>)
    ELSE QueryOutcome("returned", 0,
                      CompletedJobsList(job_runs, Len(job_runs)))

\* get_valid_completed_jobs (lines 199-213) on an answered summary.
GetValidCompletedJobs(job_runs) ==
    IF GetCompletedJobs(job_runs).kind # "returned"
    THEN GetCompletedJobs(job_runs)
    ELSE QueryOutcome("returned", 0,
                      ValidOnly(GetCompletedJobs(job_runs).list,
                                Len(GetCompletedJobs(job_runs).list)))

\* The query methods the caller may call.
QueryMethods ==
    {"get_batch_summary_data", "get_num_jobs_remaining",
     "get_completed_jobs", "get_valid_completed_jobs"}

QueryInit ==
    /\ q_jobs \in {[i \in 1..n |-> QueryJobIds[i]] : n \in 0..MaxQueryJobs}
    /\ q_job_runs \in Summaries(Len(q_jobs))
    /\ q_method = ""
    /\ q_out = QueryOutcome("", 0, <<>>)
    /\ q_calls = 0

\* The query part at rest, for the specifications of the other parts.
QueryIdle ==
    /\ q_jobs = <<>>
    /\ q_job_runs = <<>>
    /\ q_method = "idle"
    /\ q_out = QueryOutcome("", 0, <<>>)
    /\ q_calls = 0

\* The caller calls one query method, which runs to its end: the summary
\* request of lines 138-140 fails (raise_for_status), or it is answered and
\* the method computes its result from the answer.
Query(method) ==
    /\ q_method = ""
    /\ q_calls < MaxQueries
    /\ q_calls' = q_calls + 1
    /\ q_method' = method
    /\ \/ q_out' = QueryOutcome("HTTPError", 0, <<>>)
       \/ q_out' =
             CASE method = "get_batch_summary_data" ->
                      QueryOutcome("returned", 0, q_job_runs)
               [] method = "get_num_jobs_remaining" ->
                      QueryOutcome("returned",
                                   Remaining(Len(q_jobs), q_job_runs), <<>>)
               [] method = "get_completed_jobs" ->
                      GetCompletedJobs(q_job_runs)
               [] method = "get_valid_completed_jobs" ->
                      GetValidCompletedJobs(q_job_runs)
    /\ UNCHANGED <<q_jobs, q_job_runs>>
    /\ QueryFrame

\* The caller has its answer; the remote's summary becomes what it will be
\* at the next call: runs in progress may have completed, the listing may
\* differ.
QueryReturn ==
    /\ q_method \in QueryMethods
    /\ q_method' = ""
    /\ q_out' = QueryOutcome("", 0, <<>>)
    /\ q_job_runs' \in
           {s \in Summaries(Len(q_jobs)) :
               \A a \in 1..Len(q_job_runs) : \A b \in 1..Len(s) :
                   (s[b].id = q_job_runs[a].id
                    /\ ~q_job_runs[a].in_progress) => s[b] = q_job_runs[a]}
    /\ UNCHANGED <<q_jobs, q_calls>>
    /\ QueryFrame

QueryNext ==
    \/ \E method \in QueryMethods : Query(method)
    \/ QueryReturn

(***************************************************************************)
(*                   Claims on the queries of a Batch                      *)
(***************************************************************************)
\* The call of the given method is over and its summary request was
\* answered.
Answered(method) == q_method = method /\ q_out.kind # "HTTPError"

\* The entries of the summary that are not in progress.
CompletedEntries ==
    {k \in 1..Len(q_job_runs) : ~q_job_runs[k].in_progress}

\* C14: a summary query that is answered with no job run, on a Batch that
\* holds a job, raises the retrieval error.
C14_ZeroJobsRaisesRetrievalError ==
    (/\ Answered("get_batch_summary_data")
        \/ Answered("get_num_jobs_remaining")
     /\ q_job_runs = <<>>
     /\ Len(q_jobs) >= 1) =>
        q_out.kind = "JobRetrivalError"

\* The place of a job id in the insertion order of self.jobs.
LocalIndex(jid) == CHOOSE i \in 1..Len(q_jobs) : q_jobs[i] = jid

\* A list of jobs follows the insertion order of self.jobs.
InLocalOrder(list) ==
    \A a, b \in 1..Len(list) :
        a < b => LocalIndex(list[a].job_id) < LocalIndex(list[b].job_id)

\* C15: get_completed_jobs and get_valid_completed_jobs, on an answered
\* summary, return a list that follows the insertion order of self.jobs,
\* whatever the order of the summary.
C15_CompletedJobsInLocalOrder ==
    (Answered("get_completed_jobs") \/ Answered("get_valid_completed_jobs"))
        => (q_out.kind = "returned" /\ InLocalOrder(q_out.list))

\* The completed job the claim expects for entry k of the summary.
ExpectedCompletedJob(k) ==
    CompletedJob(q_job_runs[k].id, LocalParams(q_job_runs[k].id),
                 q_job_runs[k].result_url)

\* The members of a list.
Members(list) == {list[i] : i \in 1..Len(list)}

\* C16: on an answered summary, get_completed_jobs returns exactly the job
\* runs not in progress, each once, with the local parameters and the
\* remote result url, and get_valid_completed_jobs exactly those of them
\* whose result url is not null.
C16_CompletedJobsExact ==
    /\ Answered("get_completed_jobs") =>
          /\ q_out.kind = "returned"
          /\ Members(q_out.list) =
                 {ExpectedCompletedJob(k) : k \in CompletedEntries}
          /\ Len(q_out.list) = Cardinality(CompletedEntries)
    /\ Answered("get_valid_completed_jobs") =>
          /\ q_out.kind = "returned"
          /\ Members(q_out.list) =
                 {ExpectedCompletedJob(k) :
                     k \in {e \in CompletedEntries :
                               q_job_runs[e].result_url # None}}
          /\ \A i \in 1..Len(q_out.list) : q_out.list[i].result_url # None

ScenarioSchema ==
    [p1 |-> ParamInfo("int", IntV(1),
                      Some(Options(Some(IntV(1)), Some(IntV(5)), None)))]

\* The list of the scenario: [{p1: 2}, {p1: 10}].
ScenarioList == <<[p1 |-> IntV(2)], [p1 |-> IntV(10)]>>

\* The schema of the fixture of session_test.py (lines 11-41), its float
\* bounds whole numbers.
FixtureSchema ==
    [p1 |-> ParamInfo("int", IntV(1),
                      Some(Options(Some(IntV(1)), Some(IntV(5)), None))),
     p2 |-> ParamInfo("float", FloatV(2),
                      Some(Options(Some(FloatV(-5)), Some(FloatV(5)), None))),
     p3 |-> ParamInfo("str", StrV("A"),
                      Some(Options(None, None, Some({StrV("A"), StrV("B")}))))]

\* A schema with two more parameters, a bool and a uuid, whose options are
\* given when uuid_options is Some(an options dict) and not given when it
\* is None.
TypedSchema(uuid_options) ==
    [k \in DOMAIN FixtureSchema \cup {"p4", "p5"} |->
        IF k = "p4"
        THEN ParamInfo("bool", BoolV(FALSE), Some(Options(None, None, None)))
        ELSE IF k = "p5" THEN ParamInfo("uuid", NoneV, uuid_options)
        ELSE FixtureSchema[k]]

\* The parameter_info values a Session may hold.
Schemas ==
    {ScenarioSchema, FixtureSchema,
     TypedSchema(Some(Options(None, None, None))), TypedSchema(None)}

\* The keys a user may name: those of the schemas and one of no schema.
UserKeys == {"p1", "p2", "p3", "p4", "p5", "px"}

\* The values a user may give.
UserValues ==
    {IntV(0), IntV(1), IntV(5), IntV(6), FloatV(5), FloatV(6), StrV("A"),
     StrV("C"), BoolV(TRUE), NoneV}

\* The parameter sets a user may give: at most MaxKeys keys.
UserSets ==
    UNION {[ks -> UserValues] :
              ks \in {s \in SUBSET UserKeys : Cardinality(s) <= MaxKeys}}

ValidateInit ==
    /\ v_pinfo \in Schemas
    /\ v_job_params \in {<<up>> : up \in UserSets} \cup {ScenarioList}
    /\ v_out = [raised |-> "", errors |-> <<>>]
    /\ v_pc = "start"

\* The validation part at rest, for the specifications of the other parts.
ValidateIdle ==
    /\ v_pinfo = <<>>
    /\ v_job_params = <<>>
    /\ v_out = [raised |-> "", errors |-> <<>>]
    /\ v_pc = "idle"

\* The call of Session.validate_job_params (lines 107-116).
Validate ==
    /\ v_pc = "start"
    /\ v_out' = validate_job_params(v_pinfo, v_job_params)
    /\ v_pc' = "done"
    /\ UNCHANGED <<v_pinfo, v_job_params>>
    /\ ValidateFrame

ValidateNext == Validate

(***************************************************************************)
(*                      Claims on the validation                           *)
(***************************************************************************)
\* The call is over and returned its list of results.
Validated == v_pc = "done" /\ v_out.raised = ""

\* What the result of entry i reports: nothing when it is None.
Reported(i) ==
    IF v_out.errors[i] = None
    THEN [unsupported |-> {}, type_violations |-> {},
          constraint_violations |-> {}]
    ELSE v_out.errors[i][1]

\* The value's runtime type is the declared type itself; for a uuid, str
\* or NoneType.
ExactType(uv, type) ==
    IF type = "uuid" THEN uv.ty \in {"str", "NoneType"} ELSE uv.ty = type

\* The keys of entry i the schema does not have, and those it has.
UnsupportedKeys(i) ==
    {k \in DOMAIN v_job_params[i] : k \notin DOMAIN v_pinfo}

SupportedKeys(i) == DOMAIN v_job_params[i] \ UnsupportedKeys(i)

\* The keys of entry i whose value is not of the declared type.
MistypedKeys(i) ==
    {k \in SupportedKeys(i) : ~ExactType(v_job_params[i][k], v_pinfo[k].type)}

\* The keys the result of entry i names as type violations.
ReportedMistyped(i) == {t.param : t \in Reported(i).type_violations}

\* C18: the call returns, and for each entry it reports every key the
\* schema does not have and every key whose value is not of the declared
\* type, whatever else is wrong in the entry; the result of an entry is
\* None exactly when the entry has nothing to report.
C18_ReportsEveryViolation ==
    v_pc = "done" =>
        /\ v_out.raised = ""
        /\ \A i \in 1..Len(v_job_params) :
              /\ Reported(i).unsupported = UnsupportedKeys(i)
              /\ ReportedMistyped(i) = MistypedKeys(i)
              /\ v_out.errors[i] = None <=>
                     /\ UnsupportedKeys(i) = {}
                     /\ MistypedKeys(i) = {}
                     /\ Reported(i).constraint_violations = {}

\* C19: when the call returns, the keys it names as type violations are
\* the supported keys whose value's runtime type is not the declared type
\* itself (for a uuid: neither str nor NoneType).
C19_TypeCheckIsExact ==
    Validated =>
        \A i \in 1..Len(v_job_params) :
            ReportedMistyped(i) = MistypedKeys(i)

\* Some entry gives a bool for a parameter declared int.
BoolGivenForInt ==
    \E i \in 1..Len(v_job_params) : \E k \in SupportedKeys(i) :
        v_pinfo[k].type = "int" /\ v_job_params[i][k].ty = "bool"

\* Every parameter of the schema declares options.
SchemaDeclaresOptions == \A k \in DOMAIN v_pinfo : v_pinfo[k].options # None

\* What remains of C18 when every parameter declares options and no bool
\* is given for an int.
C18_WhenOptionsDeclaredAndNoBoolForInt ==
    (SchemaDeclaresOptions /\ ~BoolGivenForInt) => C18_ReportsEveryViolation

\* What remains of C19 when no bool is given for an int.
C19_ExceptBoolForInt == ~BoolGivenForInt => C19_TypeCheckIsExact

\* The constraint violations the result of entry i reports for key k, by
\* kind.
ReportedKinds(i, k) ==
    {c.constraint : c \in {x \in Reported(i).constraint_violations :
                              x.param = k}}

\* The kinds of constraint the value of key k of entry i breaks: below min,
\* above max, not one of choices.
BrokenKinds(i, k) ==
    LET uv == v_job_params[i][k]
        o == v_pinfo[k].options[1]
    IN {c \in {"min"} : o.min # None /\ uv.n < o.min[1].n}
       \cup {c \in {"max"} : o.max # None /\ uv.n > o.max[1].n}
       \cup {c \in {"choices"} :
                o.choices # None /\ ~\E m \in o.choices[1] : PyEq(uv, m)}

\* The keys of entry i that the constraint check looks at: supported,
\* accepted by the type check, their parameter declaring options.
ConstraintCheckedKeys(i) ==
    {k \in SupportedKeys(i) :
        /\ IsProperType(v_job_params[i][k], v_pinfo[k].type)
        /\ v_pinfo[k].options # None}

\* C20: when the call returns, a value that passed the type check is
\* reported as a min violation exactly when it is below min, as a max
\* violation exactly when it is above max, and as a choices violation
\* exactly when it is not one of choices; no other key is reported; and
\* the scenario's list on the scenario's schema gives None for job 0 and
\* for job 1 one constraint violation, of max.
C20_ConstraintsInclusiveAndExact ==
    Validated =>
        /\ \A i \in 1..Len(v_job_params) :
              /\ \A k \in ConstraintCheckedKeys(i) :
                     ReportedKinds(i, k) = BrokenKinds(i, k)
              /\ \A x \in Reported(i).constraint_violations :
                     x.param \in ConstraintCheckedKeys(i)
        /\ (v_pinfo = ScenarioSchema /\ v_job_params = ScenarioList) =>
              /\ v_out.errors[1] = None
              /\ v_out.errors[2] # None
              /\ Reported(2).unsupported = {}
              /\ Reported(2).type_violations = {}
              /\ Reported(2).constraint_violations =
                     {[param |-> "p1", constraint |-> "max",
                       value |-> IntV(10)]}

\* The scenario was validated.
C20_Witness ==
    /\ Validated
    /\ v_pinfo = ScenarioSchema
    /\ v_job_params = ScenarioList
    /\ v_out.errors[2] # None


\* C21: the call of validate_job_params never raises: when it is over it
\* has returned one result per entry, whatever the schema and the entries,
\* a schema parameter that declares no options included.
C21_ValidateNeverRaises ==
    v_pc = "done" =>
        /\ v_out.raised = ""
        /\ Len(v_out.errors) = Len(v_job_params)

\* Whether entry i gives a properly typed value for a parameter that
\* declares no options.
ChecksKeyWithoutOptions(i) ==
    \E k \in SupportedKeys(i) :
        /\ IsProperType(v_job_params[i][k], v_pinfo[k].type)
        /\ v_pinfo[k].options = None

\* What does hold: the call raises exactly when some entry gives a properly
\* typed value for a parameter that declares no options.
C21_RaisesIffKeyWithoutOptions ==
    v_pc = "done" =>
        ((v_out.raised # "") <=>
            \E i \in 1..Len(v_job_params) : ChecksKeyWithoutOptions(i))

\* The submit call in progress asks for a preview and the generator info
\* does not declare options.preview == True.
PreviewAskedNotDeclared ==
    s_args.is_preview /\ generator_info.preview # Some(TRUE)

\* C25: a submit call with is_preview=True on a generator whose info does
\* not declare options.preview == True raises ValueError, whatever the
\* parameter sets (validation has no say), with no POST issued and
\* session.batches and the remote left as they were.
C25_PreviewRejectedAtOnce ==
    [][(s_pc = "called" /\ PreviewAskedNotDeclared) =>
          /\ s_out'.kind = "ValueError"
          /\ ~s_out'.posted
          /\ s_out'.batch_id = None
          /\ batches' = batches
          /\ s_posts' = s_posts
          /\ remote_batches' = remote_batches]_vars

\* Such a call has ended, on a session that holds a batch of an earlier
\* call, and one of its parameter sets has a violation that validation
\* would have reported.
C25_Witness ==
    /\ s_pc = "done"
    /\ PreviewAskedNotDeclared
    /\ s_out.kind = "ValueError"
    /\ batches # <<>>
    /\ \E i \in 1..Len(s_args.job_params) :
           EntryViolates(generator_info.params, s_args.job_params[i])

\* C27: the batches of a new Session are empty; a submit call that returns
\* a Batch appends that Batch as the last element of session.batches and a
\* call that raises leaves the list as it was, so that the list is at all
\* times the Batches returned so far, in call order; and the batches of
\* another Session never change with it: no two Sessions share a list.
C27_BatchesAreTheReturnedBatches ==
    /\ batches = <<>> /\ other_batches = <<>>
    /\ [][/\ s_pc = "called" =>
               batches' = IF s_out'.kind = "returned"
                          THEN Append(batches, s_out'.batch_id[1])
                          ELSE batches
          /\ s_pc # "called" => batches' = batches
          /\ other_batches' = other_batches]_vars

\* The second call has returned a Batch after the first one did: the list
\* holds the two Batches in call order and the other Session's is empty.
C27_Witness ==
    /\ s_pc = "done"
    /\ s_out.kind = "returned"
    /\ s_calls = 2
    /\ Len(batches) = 2
    /\ batches[2] = s_out.batch_id[1]
    /\ batches[1] # batches[2]
    /\ other_batches = <<>>

(***************************************************************************)
(*       PART 7: infinity_core/session.py, random_job as a function        *)
(*                                                                         *)
(* A Session holds a parameter_info and the caller has one job drawn.      *)
(***************************************************************************)
\* The declared types of a parameter (lines 50-56).
SampleTypes == {"int", "float", "str", "bool", "uuid"}

\* The default value of a parameter of each type, outside the bounds and
\* the choices below.
DefaultOf(type) ==
    CASE type = "int" -> IntV(7)
      [] type = "float" -> FloatV(7)
      [] type = "str" -> StrV("Z")
      [] type = "bool" -> BoolV(FALSE)
      [] type = "uuid" -> NoneV

\* The choices a parameter of each type may declare.
ChoicesOf(type) ==
    CASE type = "int" -> {IntV(1), IntV(3)}
      [] type = "float" -> {FloatV(1), FloatV(3)}
      [] type = "str" -> {StrV("A"), StrV("B")}
      [] type = "bool" -> {BoolV(TRUE)}
      [] type = "uuid" -> {StrV("u")}

\* The number n as a bound of a parameter of the type.
BoundOf(type, n) == IF type = "float" THEN FloatV(n) ELSE IntV(n)

\* The options a parameter may declare: none at all (None), an empty dict,
\* one bound, both bounds (in order, or min above max), choices, choices
\* and both bounds, an empty list of choices.
OptionShapes(type) ==
    {None,
     Some(Options(None, None, None)),
     Some(Options(Some(BoundOf(type, 1)), None, None)),
     Some(Options(None, Some(BoundOf(type, 3)), None)),
     Some(Options(Some(BoundOf(type, 1)), Some(BoundOf(type, 3)), None)),
     Some(Options(Some(BoundOf(type, 3)), Some(BoundOf(type, 1)), None)),
     Some(Options(None, None, Some(ChoicesOf(type)))),
     Some(Options(Some(BoundOf(type, 1)), Some(BoundOf(type, 3)),
                  Some(ChoicesOf(type)))),
     Some(Options(None, None, Some({})))}

\* The entries parameter_info may have for one parameter.
ParamInfos ==
    UNION {{ParamInfo(type, DefaultOf(type), o) : o \in OptionShapes(type)} :
              type \in SampleTypes}

\* The names of the parameters, in the order of the generator info's list,
\* which is the order parameter_info.items() yields them in.
ParamOrder == <<"p1", "p2", "p3">>

\* The parameter_info values a Session may hold: the first n names.
SampleSchemas ==
    UNION {[{ParamOrder[i] : i \in 1..n} -> ParamInfos] :
              n \in 1..MaxSchemaParams}

\* The exception random_job raises, "" when none: that of the first
\* parameter, in order, whose draw raises.
RandomJobRaises(pinfo) ==
    LET bad == {i \in 1..Len(ParamOrder) :
                   /\ ParamOrder[i] \in DOMAIN pinfo
                   /\ SampleRaises(pinfo[ParamOrder[i]]) # ""}
    IN IF bad = {} THEN ""
       ELSE SampleRaises(pinfo[ParamOrder[
                CHOOSE i \in bad : \A j \in bad : i <= j]])

RandomInit ==
    /\ r_pinfo \in SampleSchemas
    /\ r_out = [raised |-> "", job |-> <<>>]
    /\ r_pc = "start"

\* The random_job part at rest, for the specifications of the other parts.
RandomIdle ==
    /\ r_pinfo = <<>>
    /\ r_out = [raised |-> "", job |-> <<>>]
    /\ r_pc = "idle"

\* The call of Session.random_job (lines 138-166).
RandomJob ==
    /\ r_pc = "start"
    /\ IF RandomJobRaises(r_pinfo) # ""
       THEN r_out' = [raised |-> RandomJobRaises(r_pinfo), job |-> <<>>]
       ELSE \E job \in random_job(r_pinfo) :
                r_out' = [raised |-> "", job |-> job]
    /\ r_pc' = "done"
    /\ UNCHANGED r_pinfo
    /\ RandomFrame

RandomNext == RandomJob

(***************************************************************************)
(*                        Claims on random_job                             *)
(***************************************************************************)
\* The call is over and returned a job.
RandomJobReturned == r_pc = "done" /\ r_out.raised = ""

HasChoices(v) == v.options # None /\ v.options[1].choices # None

HasBothBounds(v) ==
    v.options # None /\ v.options[1].min # None /\ v.options[1].max # None

\* C23: a job random_job returns has exactly one value per parameter of
\* the schema; the value of a parameter with choices is one of the choices,
\* bounds or not; that of an int parameter with min and max and no choices
\* is an int from min to max; that of a parameter with no choices and not
\* both bounds, or with both bounds and a type that is not int or float, is
\* the default.
C23_RandomJobRespectsConstraints ==
    RandomJobReturned =>
        /\ DOMAIN r_out.job = DOMAIN r_pinfo
        /\ \A k \in DOMAIN r_pinfo :
               LET v == r_pinfo[k]
                   x == r_out.job[k]
               IN /\ HasChoices(v) => x \in v.options[1].choices[1]
                  /\ (~HasChoices(v) /\ HasBothBounds(v) /\ v.type = "int") =>
                         /\ x.ty = "int"
                         /\ v.options[1].min[1].n <= x.n
                         /\ x.n <= v.options[1].max[1].n
                  /\ (/\ ~HasChoices(v)
                      /\ \/ ~HasBothBounds(v)
                         \/ v.type \notin {"int", "float"}) =>
                         x = v.default_value

\* A job was returned for a schema whose p1 is an int with choices and both
\* bounds and whose p2 is an int with both bounds only: p1 got a choice and
\* p2 a value strictly between its bounds.
C23_Witness ==
    /\ RandomJobReturned
    /\ DOMAIN r_pinfo = {"p1", "p2"}
    /\ r_pinfo["p1"].type = "int"
    /\ HasChoices(r_pinfo["p1"]) /\ HasBothBounds(r_pinfo["p1"])
    /\ r_out.job["p1"] = IntV(3)
    /\ r_pinfo["p2"].type = "int"
    /\ ~HasChoices(r_pinfo["p2"]) /\ HasBothBounds(r_pinfo["p2"])
    /\ r_out.job["p2"] = IntV(2)

(***************************************************************************)
(*             Claims on Session.submit: completion, preview, batches      *)
(***************************************************************************)
\* The submit call is over and got to the completion of its parameter sets
\* (lines 203-208): it passed the preview check and the validation of the
\* user's sets.
ReachedCompletion ==
    /\ s_pc = "done"
    /\ PastPreviewCheck
    /\ LET v == validate_job_params(generator_info.params, s_args.job_params)
       IN /\ v.raised = ""
          /\ \A i \in 1..Len(s_args.job_params) : v.errors[i] = None

\* C22: each completed parameter set has exactly the schema's names plus
\* the user's keys, a user's key keeps the user's value with random_sample
\* true or false, every other key has the value of the baseline (a value
\* random_job may draw, or the default), and the empty set completed with
\* random_sample false is exactly the schema's defaults.
C22_CompletionMergesUserOverBaseline ==
    ReachedCompletion =>
        /\ Len(s_out.complete) = Len(s_args.job_params)
        /\ \A i \in 1..Len(s_args.job_params) :
               LET jp == s_args.job_params[i]
                   cp == s_out.complete[i]
                   pinfo == generator_info.params
               IN /\ DOMAIN cp = DOMAIN pinfo \cup DOMAIN jp
                  /\ \A k \in DOMAIN jp : cp[k] = jp[k]
                  /\ \A k \in DOMAIN cp \ DOMAIN jp :
                         IF s_args.random_sample
                         THEN cp[k] \in SampleValues(pinfo[k])
                         ELSE cp[k] = pinfo[k].default_value
                  /\ (jp = <<>> /\ ~s_args.random_sample) =>
                         cp = default_job(pinfo)

\* A call with random sampling returned a Batch: the user gave p1 a value
\* that is not its default and p2 was drawn, not its default either.
C22_Witness ==
    /\ ReachedCompletion
    /\ s_out.kind = "returned"
    /\ s_args.random_sample
    /\ Len(s_args.job_params) >= 1
    /\ s_args.job_params[1] = [p1 |-> IntV(2)]
    /\ generator_info.params["p1"].default_value = IntV(1)
    /\ s_out.complete[1]["p1"] = IntV(2)
    /\ s_out.complete[1]["p2"] = StrV("B")

(***************************************************************************)
(*   PART 8: configuration checks, Session construction, batch submission  *)
(*                                                                         *)
(* A caller holds a token, a server, a generator name and a job type and   *)
(* makes one call: Session(...), infinity_core's submit_batch or           *)
(* infinity_api's submit_batch_to_api.  A string is modelled by what the   *)
(* code asks of it, whether it is empty; an endpoint is the sequence of    *)
(* its path segments, the empty string being the empty sequence.           *)
(***************************************************************************)
\* The strings a caller may give: the empty one and a proper one.
Tokens == {"", "token"}

Servers == {"", "https://server"}

GeneratorNames == {"", "gen"}

\* The members of JobType (data_structures.py lines 42-46) and a value that
\* is none of them.
JobTypes == {"PREVIEW", "STANDARD", "OTHER"}

\* What the remote may answer to the generator-info GET of a construction:
\* a status code and a body that is the generator's info, a JSON error
\* description, or no JSON at all.
Responses_GeneratorInfo ==
    {[status_code |-> 200, body |-> "info"],
     [status_code |-> 404, body |-> "error json"],
     [status_code |-> 404, body |-> "not json"],
     [status_code |-> 500, body |-> "error json"],
     [status_code |-> 500, body |-> "not json"]}

NoResponse == [status_code |-> 0, body |-> ""]

\* Response.ok: the status code is below 400.
Ok(response) == response.status_code < 400

\* f"api/jobs/{generator_name}/" (api.py line 310).
GeneratorEndpoint(generator_name) == <<"api", "jobs", generator_name>>

\* "api/batch/" (api.py line 430).
BatchEndpoint == <<"api", "batch">>

\* "api/jobs/preview/" and "api/jobs/run/" (infinity_api/api.py lines 210
\* and 220).
JobEndpoint(job_type) ==
    IF job_type = "PREVIEW" THEN <<"api", "jobs", "preview">>
    ELSE <<"api", "jobs", "run">>

\* build_request (api.py lines 52-57): the exception it raises, "" when it
\* returns the URL and the headers.
build_request(token, server, endpoint) ==
    IF token = "" THEN "ValueError"
    ELSE IF server = "" THEN "ValueError"
    ELSE IF endpoint = <<>> THEN "ValueError"
    ELSE ""

ConfigInit ==
    /\ k_token \in Tokens
    /\ k_server \in Servers
    /\ k_generator \in GeneratorNames
    /\ k_job_type \in JobTypes
    /\ k_num_jobs \in 0..MaxConfigJobs
    /\ k_op = ""
    /\ k_requests = 0
    /\ k_response = NoResponse
    /\ k_session = None
    /\ k_out = ""
    /\ k_pc = "start"

\* The configuration part at rest, for the specifications of the other
\* parts.
ConfigIdle ==
    /\ k_token = ""
    /\ k_server = ""
    /\ k_generator = ""
    /\ k_job_type = ""
    /\ k_num_jobs = 0
    /\ k_op = ""
    /\ k_requests = 0
    /\ k_response = NoResponse
    /\ k_session = None
    /\ k_out = ""
    /\ k_pc = "idle"

\* The operation ends with outcome out after n HTTP requests.
ConfigEnds(op, out, n) ==
    /\ k_op' = op
    /\ k_out' = out
    /\ k_requests' = n
    /\ k_pc' = "done"
    /\ UNCHANGED <<k_token, k_server, k_generator, k_job_type, k_num_jobs>>
    /\ ConfigFrame

\* Session(token, generator, server): __post_init__ (session.py lines
\* 44-47) issues the generator-info GET and keeps response.json(), without
\* a look at the status code.  A body that is no JSON makes json() raise; a
\* JSON body, whatever the status, becomes _generator_info.
ConstructSession ==
    /\ k_pc = "start"
    /\ IF build_request(k_token, k_server,
                        GeneratorEndpoint(k_generator)) # ""
       THEN /\ ConfigEnds("Session", "ValueError", 0)
            /\ UNCHANGED <<k_response, k_session>>
       ELSE \E response \in Responses_GeneratorInfo :
                /\ k_response' = response
                /\ IF response.body = "not json"
                   THEN /\ ConfigEnds("Session", "JSONDecodeError", 1)
                        /\ UNCHANGED k_session
                   ELSE /\ ConfigEnds("Session", "returned", 1)
                        /\ k_session' = Some(response.body)

\* infinity_core's submit_batch (batch.py lines 337-351): post_batch builds
\* its request and POSTs; a refused POST is HTTPError (line 345); then
\* _parse_jobs_from_response_data reads job_runs[0] (line 42), IndexError
\* for a batch without jobs, and issues the generator-info GET (lines
\* 43-44), HTTPError when refused.  The job type only sets is_preview (line
\* 341) and the generator name goes into the payload unchecked.
SubmitBatch ==
    /\ k_pc = "start"
    /\ UNCHANGED <<k_response, k_session>>
    /\ IF build_request(k_token, k_server, BatchEndpoint) # ""
       THEN ConfigEnds("submit_batch", "ValueError", 0)
       ELSE \E post_ok \in BOOLEAN, info_ok \in BOOLEAN :
                IF ~post_ok
                THEN ConfigEnds("submit_batch", "HTTPError", 1)
                ELSE IF k_num_jobs = 0
                THEN ConfigEnds("submit_batch", "IndexError", 1)
                ELSE IF ~info_ok
                THEN ConfigEnds("submit_batch", "HTTPError", 2)
                ELSE ConfigEnds("submit_batch", "returned", 2)

\* infinity_api's submit_batch_to_api (infinity_api/batch.py lines 530-606)
\* with _submit_jobs (lines 34-120): the token and the generator are tested
\* (564-567), then the job type (34-39); each job is POSTed through
\* build_request, which tests the server; with no accepted job the call is
\* ValueError (lines 87-93).
SubmitBatchToApi ==
    /\ k_pc = "start"
    /\ UNCHANGED <<k_response, k_session>>
    /\ IF k_token = "" \/ k_generator = ""
       THEN ConfigEnds("submit_batch_to_api", "ValueError", 0)
       ELSE IF k_job_type \notin {"PREVIEW", "STANDARD"}
       THEN ConfigEnds("submit_batch_to_api", "ValueError", 0)
       ELSE IF k_num_jobs = 0
       THEN ConfigEnds("submit_batch_to_api", "ValueError", 0)
       ELSE IF build_request(k_token, k_server, JobEndpoint(k_job_type)) # ""
       THEN ConfigEnds("submit_batch_to_api", "ValueError", 0)
       ELSE \E accepted \in SUBSET (1..k_num_jobs) :
                IF accepted = {}
                THEN ConfigEnds("submit_batch_to_api", "ValueError",
                                k_num_jobs)
                ELSE ConfigEnds("submit_batch_to_api", "returned",
                                k_num_jobs)

ConfigNext ==
    \/ ConstructSession
    \/ SubmitBatch
    \/ SubmitBatchToApi

(***************************************************************************)
(*            Claims on construction and configuration errors              *)
(***************************************************************************)
\* C24: a construction whose generator-info request is answered with a
\* status that is not 2xx ends with an exception and produces no Session.
C24_ConstructionFailsOnErrorStatus ==
    (/\ k_pc = "done"
     /\ k_op = "Session"
     /\ k_requests = 1
     /\ ~Ok(k_response)) =>
        /\ k_out # "returned"
        /\ k_session = None

\* What does hold: the construction fails exactly when the configuration
\* is refused by build_request or the body of the answer is no JSON.
C24_ConstructionFailsIffNoJson ==
    (k_pc = "done" /\ k_op = "Session") =>
        ((k_out # "returned") <=>
            \/ k_token = "" \/ k_server = ""
            \/ k_response.body = "not json")

\* The caller's configuration has an error: an empty token, server or
\* generator name, or a job type that is no member of JobType.
ConfigurationError ==
    \/ k_token = ""
    \/ k_server = ""
    \/ k_generator = ""
    \/ k_job_type \notin {"PREVIEW", "STANDARD"}

\* C26: a batch submission (submit_batch or submit_batch_to_api) called
\* with a configuration error ends with ValueError and has issued no HTTP
\* request.
C26_ConfigErrorRaisesBeforeRequest ==
    (/\ k_pc = "done"
     /\ k_op \in {"submit_batch", "submit_batch_to_api"}
     /\ ConfigurationError) =>
        /\ k_out = "ValueError"
        /\ k_requests = 0

\* What does hold: submit_batch_to_api rejects every configuration error
\* so, and submit_batch an empty token and an empty server.
C26_HoldsOfSubmitBatchToApi ==
    (/\ k_pc = "done"
     /\ \/ k_op = "submit_batch_to_api" /\ ConfigurationError
        \/ k_op = "submit_batch" /\ (k_token = "" \/ k_server = "")) =>
        /\ k_out = "ValueError"
        /\ k_requests = 0

(***************************************************************************)
(*            PART 9: infinity_core/api.py, build_request's URL            *)
(*                                                                         *)
(* A string is the sequence of its pieces: a slash, a name without slash,  *)
(* the scheme and host of a server taken whole, a question mark, an        *)
(* encoded query.  The empty string is the empty sequence.                 *)
(***************************************************************************)
\* "https://api.company.com": scheme and host, no path.
Origin == "https://api.company.com"

\* Strings in which no two slashes and no two names are adjacent.
Alternating(str) ==
    \A i \in 1..(Len(str) - 1) : (str[i] = "/") # (str[i + 1] = "/")

\* The endpoints a caller may give: relative or absolute paths.
Endpoints ==
    {e \in UNION {[1..n -> {"/", "api", "ep"}] : n \in 0..MaxEndpointLen} :
        Alternating(e)}

\* The servers a caller may give: none, or the host with or without a path.
UrlServers ==
    {<<>>, <<Origin>>, <<Origin, "/">>, <<Origin, "/", "v1">>,
     <<Origin, "/", "v1", "/">>}

\* The query parameters a caller may give, as urlencode renders them.
EncodedQueries == {None, Some("var1=1&var2=2")}

\* The path of a base URL up to and including its last slash; a base
\* without path has the root as its directory.
DirOf(path) ==
    IF \E i \in 1..Len(path) : path[i] = "/"
    THEN SubSeq(path, 1,
                CHOOSE i \in 1..Len(path) :
                    /\ path[i] = "/"
                    /\ \A k \in (i + 1)..Len(path) : path[k] # "/")
    ELSE <<"/">>

\* A plausible slip: the two strings are concatenated.
urljoinConcatenates(base, url) == base \o url

\* urllib.parse.urljoin (line 59) for a base made of scheme, host and path
\* and a non-empty reference that is a path: an absolute reference replaces
\* the base's path, a relative one replaces its last segment.
urljoin(base, url) ==
    IF url[1] = "/"
    THEN <<Head(base)>> \o url
    ELSE <<Head(base)>> \o DirOf(Tail(base)) \o url

\* _ensure_trailing_slash (lines 22-23).
ensure_trailing_slash(url) ==
    IF Len(url) > 0 /\ url[Len(url)] = "/" THEN url ELSE Append(url, "/")

\* _ensure_no_trailing_slash (lines 26-27).
ensure_no_trailing_slash(url) ==
    IF Len(url) > 0 /\ url[Len(url)] = "/"
    THEN SubSeq(url, 1, Len(url) - 1)
    ELSE url

\* The URL build_request returns (lines 59-63).
RequestUrl(server, endpoint, query_parameters) ==
    LET url == ensure_trailing_slash(urljoin(server, endpoint))
    IN IF query_parameters # None
       THEN ensure_no_trailing_slash(url \o <<"?", query_parameters[1]>>)
       ELSE url

UrlInit ==
    /\ u_token \in {"", "123"}
    /\ u_server \in UrlServers
    /\ u_endpoint \in Endpoints
    /\ u_query \in EncodedQueries
    /\ u_out = [kind |-> "", url |-> <<>>]
    /\ u_pc = "start"

\* The part at rest, for the specifications of the other parts.
UrlIdle ==
    /\ u_token = ""
    /\ u_server = <<>>
    /\ u_endpoint = <<>>
    /\ u_query = None
    /\ u_out = [kind |-> "", url |-> <<>>]
    /\ u_pc = "idle"

\* build_request(token, server, endpoint, None, query_parameters), lines
\* 52-69: the three emptiness checks, then the URL.
BuildRequest ==
    /\ u_pc = "start"
    /\ u_pc' = "done"
    /\ u_out' = IF u_token = "" \/ u_server = <<>> \/ u_endpoint = <<>>
                THEN [kind |-> "ValueError", url |-> <<>>]
                ELSE [kind |-> "returned",
                      url |-> RequestUrl(u_server, u_endpoint, u_query)]
    /\ UNCHANGED <<u_token, u_server, u_endpoint, u_query>>
    /\ UrlFrame

UrlNext == BuildRequest

(***************************************************************************)
(*                        Claims on build_request                          *)
(***************************************************************************)
\* An endpoint without its leading and its trailing slash.
Core(e) ==
    LET from == IF Len(e) > 0 /\ e[1] = "/" THEN 2 ELSE 1
        to == IF Len(e) > 0 /\ e[Len(e)] = "/" THEN Len(e) - 1 ELSE Len(e)
    IN SubSeq(e, from, to)

\* The four endpoints of test_join_server_and_endpoint.
TestedEndpoints ==
    {<<"api", "/", "ep">>, <<"/", "api", "/", "ep">>,
     <<"/", "api", "/", "ep", "/">>, <<"api", "/", "ep", "/">>}

\* C32: for the server "https://api.company.com" and no query, the URL
\* build_request returns is the server, one slash, the endpoint without its
\* leading and trailing slash, one slash; for each of "api/ep", "/api/ep",
\* "/api/ep/" and "api/ep/" it is "https://api.company.com/api/ep/".
C32_SameUrlWithOrWithoutSlashes ==
    (u_pc = "done" /\ u_out.kind = "returned" /\ u_server = <<Origin>>
        /\ u_query = None /\ Core(u_endpoint) # <<>>) =>
        /\ u_out.url = <<Origin, "/">> \o Core(u_endpoint) \o <<"/">>
        /\ u_endpoint \in TestedEndpoints =>
               u_out.url = <<Origin, "/", "api", "/", "ep", "/">>

\* build_request has returned the URL for the endpoint "/api/ep/".
C32_Witness ==
    /\ u_pc = "done"
    /\ u_out.kind = "returned"
    /\ u_server = <<Origin>>
    /\ u_query = None
    /\ u_endpoint = <<"/", "api", "/", "ep", "/">>
    /\ u_out.url = <<Origin, "/", "api", "/", "ep", "/">>

(***************************************************************************)
(*             PART 10: infinity_api/batch.py Batch.await_jobs             *)
(*                                                                         *)
(* The Batch holds the jobs 1..w_num_jobs, in that order.  The remote      *)
(* lists, for the batch id, those jobs and w_extra further ones: jobs of   *)
(* the same batch that a truncated or resumed Batch does not hold.         *)
(***************************************************************************)
\* The job ids of self.jobs.
LocalJobs == 1..w_num_jobs

\* The job ids the remote lists for self.uid.
RemoteJobs == 1..(w_num_jobs + w_extra)

\* The timeout arguments tried: a few seconds and the default of 48 hours
\* (line 469).
AwaitJobsTimeouts == {5, 2 * SecondsPerDay}

\* completed_job_payloads (line 501), as the set of their ids.
CompletedJobPayloads == {j \in RemoteJobs : w_remote[j] # "in_progress"}

\* Lines 511-516 for a dictionary that has every local job: one
\* CompletedJob per job of self.jobs, in that order.
CompletedJobsInOrder ==
    [k \in 1..w_num_jobs |->
        [job_id |-> k, result_url |-> w_remote[k] = "valid"]]

AwaitJobsInit ==
    /\ w_num_jobs \in 0..MaxAwaitJobs
    /\ w_extra \in 0..MaxExtraJobs
    /\ w_remote \in [1..(w_num_jobs + w_extra) ->
                         {"in_progress", "valid", "invalid"}]
    /\ w_timeout \in AwaitJobsTimeouts
    /\ w_polling_interval \in PollingIntervals
    /\ w_now = 0
    /\ w_num_completed_jobs = 0
    /\ w_observed = None
    /\ w_polls = 0
    /\ w_result = None
    /\ w_err = ""
    /\ w_pc = "start"

\* The part at rest, for the specifications of the other parts.
AwaitJobsIdle ==
    /\ w_num_jobs = 0
    /\ w_extra = 0
    /\ w_remote = <<>>
    /\ w_timeout = 0
    /\ w_polling_interval = 0
    /\ w_now = 0
    /\ w_num_completed_jobs = 0
    /\ w_observed = None
    /\ w_polls = 0
    /\ w_result = None
    /\ w_err = ""
    /\ w_pc = "idle"

\* The remote finishes a job it lists, with a result url or without one.
RemoteJobFinishes(j) ==
    /\ w_pc \in {"start", "loop"}
    /\ j \in DOMAIN w_remote
    /\ w_remote[j] = "in_progress"
    /\ \E st \in {"valid", "invalid"} :
           w_remote' = [w_remote EXCEPT ![j] = st]
    /\ UNCHANGED <<w_num_jobs, w_extra, w_timeout, w_polling_interval, w_now,
                   w_num_completed_jobs, w_observed, w_polls, w_result,
                   w_err, w_pc>>
    /\ AwaitJobsFrame

\* Lines 487-491: an empty Batch returns [] at once; otherwise the clock
\* is read and num_completed_jobs starts at 0.
AwaitJobsStart ==
    /\ w_pc = "start"
    /\ IF w_num_jobs = 0
       THEN w_pc' = "returned" /\ w_result' = Some(<<>>)
       ELSE w_pc' = "loop" /\ w_result' = w_result
    /\ UNCHANGED <<w_num_jobs, w_extra, w_remote, w_timeout,
                   w_polling_interval, w_now, w_num_completed_jobs,
                   w_observed, w_polls, w_err>>
    /\ AwaitJobsFrame

\* One iteration of the loop of lines 493-505 and what follows it: the
\* request, which takes d seconds and is answered with a 2xx status or
\* not, the count of the listed jobs that are not in progress, the timeout
\* test, the sleep, the loop test; when the count equals num_jobs, lines
\* 507-518, where the lookup of a local job that is not among the
\* completed ones raises KeyError.
AwaitJobsPoll ==
    /\ w_pc = "loop"
    /\ w_polls < MaxPolls
    /\ w_polls' = w_polls + 1
    /\ \E d \in RequestDurations, ok \in BOOLEAN :
          IF RaiseForStatus(ok) # ""
          THEN /\ w_now' = w_now + d
               /\ w_pc' = "raised"
               /\ w_err' = RaiseForStatus(ok)
               /\ UNCHANGED <<w_num_completed_jobs, w_observed, w_result>>
          ELSE /\ w_num_completed_jobs' = Cardinality(CompletedJobPayloads)
               /\ w_observed' = Some(CompletedJobPayloads)
               /\ IF TimedeltaSeconds(w_now + d) > w_timeout
                  THEN /\ w_now' = w_now + d
                       /\ w_pc' = "raised"
                       /\ w_err' = "TimeoutError"
                       /\ UNCHANGED w_result
                  ELSE /\ w_now' = w_now + d + w_polling_interval
                       /\ IF Cardinality(CompletedJobPayloads) # w_num_jobs
                          THEN /\ w_pc' = "loop"
                               /\ UNCHANGED <<w_err, w_result>>
                          ELSE IF LocalJobs \subseteq CompletedJobPayloads
                          THEN /\ w_pc' = "returned"
                               /\ w_result' = Some(CompletedJobsInOrder)
                               /\ UNCHANGED w_err
                          ELSE /\ w_pc' = "raised"
                               /\ w_err' = "KeyError"
                               /\ UNCHANGED w_result
    /\ UNCHANGED <<w_num_jobs, w_extra, w_remote, w_timeout,
                   w_polling_interval>>
    /\ AwaitJobsFrame

AwaitJobsNext ==
    \/ \E j \in 1..(MaxAwaitJobs + MaxExtraJobs) : RemoteJobFinishes(j)
    \/ AwaitJobsStart
    \/ AwaitJobsPoll

(***************************************************************************)
(*                       Claims on Batch.await_jobs                        *)
(***************************************************************************)
\* The last answered poll reported every job of the Batch as not in
\* progress, and the call did not time out on it.
PollSawLocalJobsDone ==
    /\ w_num_jobs > 0
    /\ w_observed # None
    /\ LocalJobs \subseteq w_observed[1]
    /\ w_err # "TimeoutError"

\* C40: once a poll has reported every job of the local Batch as not in
\* progress, await_jobs has returned, whatever further jobs the remote
\* lists for the batch id, and its result has one entry per local job, in
\* local order.
C40_ReturnsWhenLocalJobsDone ==
    PollSawLocalJobsDone =>
        /\ w_pc = "returned"
        /\ w_result = Some(CompletedJobsInOrder)

\* What does hold: it is so when the remote lists no further job, and
\* with further jobs the call returns only from a poll in which the number
\* of completed listed jobs is the number of local jobs, raising KeyError
\* when those are not the local ones.
C40_HoldsWithoutFurtherJobs ==
    /\ w_extra = 0 => C40_ReturnsWhenLocalJobsDone
    /\ w_pc = "returned" /\ w_num_jobs > 0 =>
           /\ w_observed # None
           /\ Cardinality(w_observed[1]) = w_num_jobs
           /\ w_result = Some(CompletedJobsInOrder)
    /\ w_err = "KeyError" =>
           /\ w_extra > 0
           /\ Cardinality(w_observed[1]) = w_num_jobs
           /\ ~(LocalJobs \subseteq w_observed[1])

(***************************************************************************)
(* Specifications: one per part, the other parts at rest.                  *)
(***************************************************************************)
InitSubmit ==
    /\ SubmitInit
    /\ SessionIdle /\ DownloadIdle /\ AwaitIdle
    /\ QueryIdle /\ ValidateIdle /\ RandomIdle
    /\ ConfigIdle /\ UrlIdle /\ AwaitJobsIdle

SubmitSpec == InitSubmit /\ [][SubmitNext]_vars

InitSession ==
    /\ SessionInit
    /\ SubmitIdle /\ DownloadIdle /\ AwaitIdle
    /\ QueryIdle /\ ValidateIdle /\ RandomIdle
    /\ ConfigIdle /\ UrlIdle /\ AwaitJobsIdle

SessionSpec == InitSession /\ [][SessionNext]_vars

InitDownload ==
    /\ DownloadInit
    /\ SubmitIdle /\ SessionIdle /\ AwaitIdle
    /\ QueryIdle /\ ValidateIdle /\ RandomIdle
    /\ ConfigIdle /\ UrlIdle /\ AwaitJobsIdle

DownloadSpec == InitDownload /\ [][DownloadNext]_vars

InitAwait ==
    /\ AwaitInit
    /\ SubmitIdle /\ SessionIdle /\ DownloadIdle
    /\ QueryIdle /\ ValidateIdle /\ RandomIdle
    /\ ConfigIdle /\ UrlIdle /\ AwaitJobsIdle

AwaitSpec == InitAwait /\ [][AwaitNext]_vars

InitQuery ==
    /\ QueryInit
    /\ SubmitIdle /\ SessionIdle /\ DownloadIdle
    /\ AwaitIdle /\ ValidateIdle /\ RandomIdle
    /\ ConfigIdle /\ UrlIdle /\ AwaitJobsIdle

QuerySpec == InitQuery /\ [][QueryNext]_vars

InitValidate ==
    /\ ValidateInit
    /\ SubmitIdle /\ SessionIdle /\ DownloadIdle
    /\ AwaitIdle /\ QueryIdle /\ RandomIdle
    /\ ConfigIdle /\ UrlIdle /\ AwaitJobsIdle

ValidateSpec == InitValidate /\ [][ValidateNext]_vars

InitRandom ==
    /\ RandomInit
    /\ SubmitIdle /\ SessionIdle /\ DownloadIdle
    /\ AwaitIdle /\ QueryIdle /\ ValidateIdle
    /\ ConfigIdle /\ UrlIdle /\ AwaitJobsIdle

RandomSpec == InitRandom /\ [][RandomNext]_vars

InitConfig ==
    /\ ConfigInit
    /\ SubmitIdle /\ SessionIdle /\ DownloadIdle
    /\ AwaitIdle /\ QueryIdle /\ ValidateIdle
    /\ RandomIdle /\ UrlIdle /\ AwaitJobsIdle

ConfigSpec == InitConfig /\ [][ConfigNext]_vars

InitUrl ==
    /\ UrlInit
    /\ SubmitIdle /\ SessionIdle /\ DownloadIdle
    /\ AwaitIdle /\ QueryIdle /\ ValidateIdle
    /\ RandomIdle /\ ConfigIdle /\ AwaitJobsIdle

UrlSpec == InitUrl /\ [][UrlNext]_vars

InitAwaitJobs ==
    /\ AwaitJobsInit
    /\ SubmitIdle /\ SessionIdle /\ DownloadIdle
    /\ AwaitIdle /\ QueryIdle /\ ValidateIdle
    /\ RandomIdle /\ ConfigIdle /\ UrlIdle

AwaitJobsSpec == InitAwaitJobs /\ [][AwaitJobsNext]_vars

====
